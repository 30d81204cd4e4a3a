------------------------ MODULE RolloutStatusProofs ------------------------
(* The life of a task row between engine, handlers and agent: proofs of    *)
(* AgentOwnsTask and StatusMonotone for requests that are answered or lost,*)
(* but never overtaken (no agent gives up on one, none restarts).          *)
EXTENDS RolloutProofs

USE DEF Rows

(* How far the row of its task may be when the agent is at pc.             *)
PcRank(pc) ==
    CASE pc = "preflight" -> 1 [] pc = "download" -> 2
      [] pc = "apply" -> 3 [] OTHER -> 4

AgentsUp == \A r \in Robot : agent[r].pc # "down"

(* An agent has at most one request out, and waits for it.                 *)
OneCall ==
    /\ \A c \in calls : c.waiting
    /\ \A b, c \in calls : b.robot = c.robot => b = c

IsReport(c) == c.status # "heartbeat" /\ c.step = "new"

(* A report on its way is ahead of the row it is about, and not ahead of   *)
(* its sender.                                                             *)
ReportAhead ==
    \A c \in calls : IsReport(c) =>
       /\ c.task \in Rows /\ tasks[c.task].robot = c.robot
       /\ 1 <= Rank(tasks[c.task].status)
       /\ Rank(tasks[c.task].status) < Rank(c.status)
       /\ agent[c.robot].pc \in Updating =>
             /\ agent[c.robot].task = c.task
             /\ Rank(c.status) <= PcRank(agent[c.robot].pc)

(* AgentOwnsTask, with the row never ahead of the agent.                   *)
AgentsOnRows ==
    \A r \in Robot : agent[r].pc \in Updating =>
       /\ agent[r].task \in Rows
       /\ tasks[agent[r].task].robot = r
       /\ 1 <= Rank(tasks[agent[r].task].status)
       /\ Rank(tasks[agent[r].task].status) <= PcRank(agent[r].pc)

Handshake == AgentsUp /\ OneCall /\ ReportAhead /\ AgentsOnRows

(* The rows the engine read are still what it read them for: nobody else   *)
(* touches a pending row, nor one that is closed.                          *)
RowsAsRead ==
    /\ eng.pc \in {"promote", "assign"} =>
          \A k \in eng.rows : k \in Rows /\ tasks[k].status = "pending"
    /\ eng.pc = "normalise" =>
          \A k \in eng.rows : /\ k \in Rows /\ tasks[k].is_rollback
                              /\ tasks[k].status = "succeeded"

StatusInv == Handshake /\ RowsAsRead

-----------------------------------------------------------------------------
LEMMA RankOf ==
    /\ Rank("pending") = 0 /\ Rank("assigned") = 1 /\ Rank("downloading") = 2
    /\ Rank("applying") = 3 /\ Rank("verifying") = 4 /\ Rank("succeeded") = 5
    /\ Rank("failed") = 5
    /\ \A s \in TaskStatus : Rank(s) \in 0..5 /\ (s \in Terminal <=> Rank(s) = 5)
                             /\ (s = "pending" <=> Rank(s) = 0)
  BY DEF Rank, TaskStatus, AgentStatus, Terminal

LEMMA PcRankOf ==
    /\ PcRank("preflight") = 1 /\ PcRank("download") = 2
    /\ PcRank("apply") = 3 /\ PcRank("verify") = 4
    /\ \A pc : PcRank(pc) \in 1..4
  BY DEF PcRank

LEMMA StatusTyped ==
    ASSUME TypeOK
    PROVE  /\ \A k \in Rows : tasks[k].status \in TaskStatus
           /\ \A c \in calls : /\ c.robot \in Robot
                               /\ c.status # "heartbeat" => c.status \in TaskStatus
  <1>1. \A k \in Rows : tasks[k] \in TaskRow
    BY DEF TypeOK, StoreTypeOK
  <1>2. \A c \in calls : c \in Call
    BY DEF TypeOK, ApiTypeOK
  <1> QED
    BY <1>1, <1>2 DEF TaskRow, Call, CallStatus, TaskStatus

(* Nobody works on a row that is pending or closed, so it may change.      *)
LEMMA HandshakeKept ==
    ASSUME TypeOK, Handshake, UNCHANGED agent, calls' \subseteq calls,
           \A k \in Rows :
              /\ k \in DOMAIN tasks'
              /\ tasks'[k].robot = tasks[k].robot
              /\ \/ tasks'[k].status = tasks[k].status
                 \/ Rank(tasks[k].status) \in {0, 5}
    PROVE  Handshake'
  <1>1. AgentsUp' /\ OneCall'
    BY DEF Handshake, AgentsUp, OneCall
  <1>2. ReportAhead'
    <2> SUFFICES ASSUME NEW c \in calls, IsReport(c)
                 PROVE  /\ c.task \in DOMAIN tasks' /\ tasks'[c.task].robot = c.robot
                        /\ 1 <= Rank(tasks'[c.task].status)
                        /\ Rank(tasks'[c.task].status) < Rank(c.status)
                        /\ agent[c.robot].pc \in Updating =>
                              /\ agent[c.robot].task = c.task
                              /\ Rank(c.status) <= PcRank(agent[c.robot].pc)
      BY DEF ReportAhead, IsReport
    <2>1. c.task \in Rows /\ tasks[c.task].robot = c.robot
          /\ 1 <= Rank(tasks[c.task].status)
          /\ Rank(tasks[c.task].status) < Rank(c.status)
          /\ (agent[c.robot].pc \in Updating =>
                /\ agent[c.robot].task = c.task
                /\ Rank(c.status) <= PcRank(agent[c.robot].pc))
      BY DEF Handshake, ReportAhead
    <2>2. Rank(c.status) \in 0..5
      BY StatusTyped, RankOf DEF IsReport
    <2>3. tasks'[c.task].status = tasks[c.task].status
      BY <2>1, <2>2
    <2> QED
      BY <2>1, <2>3
  <1>3. AgentsOnRows'
    <2> SUFFICES ASSUME NEW r \in Robot, agent[r].pc \in Updating
                 PROVE  /\ agent[r].task \in DOMAIN tasks'
                        /\ tasks'[agent[r].task].robot = r
                        /\ 1 <= Rank(tasks'[agent[r].task].status)
                        /\ Rank(tasks'[agent[r].task].status) <= PcRank(agent[r].pc)
      BY DEF AgentsOnRows
    <2>1. /\ agent[r].task \in Rows /\ tasks[agent[r].task].robot = r
          /\ 1 <= Rank(tasks[agent[r].task].status)
          /\ Rank(tasks[agent[r].task].status) <= PcRank(agent[r].pc)
      BY DEF Handshake, AgentsOnRows
    <2>2. PcRank(agent[r].pc) \in 1..4
      BY PcRankOf
    <2>3. tasks'[agent[r].task].status = tasks[agent[r].task].status
      BY <2>1, <2>2
    <2> QED
      BY <2>1, <2>3
  <1> QED
    BY <1>1, <1>2, <1>3 DEF Handshake

-----------------------------------------------------------------------------
(* StatusInv, action by action. *)

(* The rows _ensure_stage_tasks and _halt_and_rollback insert.             *)
LEMMA NewRowTyped ==
    ASSUME TypeOK, EngineBusy, eng.pc # "idle", NEW t \in eng.todo
    PROVE  /\ [dep |-> eng.dep, robot |-> t.robot, is_rollback |-> FALSE,
               stage |-> eng.stage,
               status |-> IF t.robot \in Compat[eng.dep] THEN "pending" ELSE "skipped",
               from_version |-> t.version, to_version |-> Release[eng.dep]] \in TaskRow
           /\ \A prev \in Version :
                 [dep |-> eng.dep, robot |-> t.robot, is_rollback |-> TRUE,
                  stage |-> eng.stage, status |-> "pending",
                  from_version |-> Release[eng.dep], to_version |-> prev] \in TaskRow
  <1>1. /\ t.robot \in Robot /\ t.version \in Version /\ eng.stage \in Nat
        /\ eng.dep \in Dep
    BY DEF TypeOK, EngineTypeOK, EngineBusy, Seen
  <1>2. Release[eng.dep] \in Version
    BY <1>1, StoreAssumption
  <1> QED
    BY <1>1, <1>2 DEF TaskRow, TaskStatus, Terminal

LEMMA EngineStatus ==
    ASSUME TypeOK, EngineBusy, StatusInv, EngineNext, UNCHANGED <<calls, agent>>
    PROVE  StatusInv' /\ \A k \in Rows : StatusStep(k)
  <1>1. /\ StoreTypeOK /\ eng.rows \subseteq Nat
        /\ \A k \in Rows : tasks[k] \in TaskRow
    BY DEF TypeOK, EngineTypeOK, StoreTypeOK
  <1>0. \A q : Idle(q).pc = "idle"
    BY DEF Idle
  <1>2. ASSUME UNCHANGED tasks PROVE Handshake' /\ \A k \in Rows : StatusStep(k)
    BY <1>2, HandshakeKept DEF StatusInv, StatusStep
  <1>3. ASSUME UNCHANGED tasks, eng'.pc \notin {"promote", "assign", "normalise"}
        PROVE  StatusInv' /\ \A k \in Rows : StatusStep(k)
    BY <1>2, <1>3 DEF StatusInv, RowsAsRead
  <1>4. ASSUME NEW row \in TaskRow, CreateTask(row), eng.pc = eng'.pc \/ eng'.pc = "idle",
               eng.pc \in {"create", "rollback"}
        PROVE  StatusInv' /\ \A k \in Rows : StatusStep(k)
    <2>1. \A k \in Rows : k \in DOMAIN tasks' /\ tasks'[k] = tasks[k]
      BY <1>1, <1>4, CreateTaskType
    <2>2. Handshake'
      BY <2>1, HandshakeKept DEF StatusInv
    <2>3. RowsAsRead'
      BY <1>4 DEF RowsAsRead
    <2> QED
      BY <2>1, <2>2, <2>3 DEF StatusInv, StatusStep
  <1>5. eng = [pc |-> eng.pc, queue |-> eng.queue, dep |-> eng.dep, stage |-> eng.stage,
               only_rollback |-> eng.only_rollback, rows |-> eng.rows,
               todo |-> eng.todo, gate |-> eng.gate]
    BY DEF TypeOK, EngineTypeOK
  <1>6. CASE Tick
    BY <1>3, <1>5, <1>6 DEF Tick, storeVars
  <1>7. CASE Load
    <2>1. eng'.pc \in {"ensure", "create", "idle"}
      <3>1. PICK d \in eng.queue :
             LET rest == eng.queue \ {d}
                 work == [Idle(rest) EXCEPT !.dep = d, !.stage = deps[d].stage]
             IN  \/ eng' = [work EXCEPT !.pc = "ensure"]
                 \/ eng' = [work EXCEPT !.pc = "create", !.only_rollback = TRUE]
                 \/ eng' = Idle(rest)
        BY <1>7 DEF Load
      <3> QED
        BY <1>0, <3>1 DEF Idle
    <2> QED
      BY <1>3, <1>7, <2>1 DEF Load, storeVars
  <1>8. CASE Ensure
    BY <1>3, <1>5, <1>8 DEF Ensure, storeVars
  <1>9. CASE EnsureTask
    <2>1. PICK t \in eng.todo :
             /\ CreateTask([dep |-> eng.dep, robot |-> t.robot, is_rollback |-> FALSE,
                            stage |-> eng.stage,
                            status |-> IF t.robot \in Compat[eng.dep]
                                       THEN "pending" ELSE "skipped",
                            from_version |-> t.version,
                            to_version |-> Release[eng.dep]])
             /\ eng' = [eng EXCEPT !.todo = @ \ {t}]
      BY <1>9 DEF EnsureTask
    <2> DEFINE row == [dep |-> eng.dep, robot |-> t.robot, is_rollback |-> FALSE,
                       stage |-> eng.stage,
                       status |-> IF t.robot \in Compat[eng.dep]
                                  THEN "pending" ELSE "skipped",
                       from_version |-> t.version,
                       to_version |-> Release[eng.dep]]
    <2>2. row \in TaskRow
      BY <1>9, NewRowTyped DEF EnsureTask
    <2>3. CreateTask(row) /\ eng.pc = "create" /\ eng'.pc = "create"
      BY <1>5, <1>9, <2>1 DEF EnsureTask
    <2> HIDE DEF row
    <2> QED
      BY <1>4, <2>2, <2>3
  <1>10. CASE PromotePending
    <2>1. \A k \in eng'.rows : k \in Rows /\ tasks[k].status = "pending"
      BY <1>5, <1>10 DEF PromotePending, WithStatus, StageTasks, TasksOf
    <2>2. eng'.pc = "promote" /\ UNCHANGED tasks
      BY <1>5, <1>10 DEF PromotePending, storeVars
    <2>3. RowsAsRead'
      BY <2>1, <2>2 DEF RowsAsRead
    <2> QED
      BY <1>2, <2>2, <2>3 DEF StatusInv
  <1>11. CASE CheckGates
    <2>1. eng.pc = "promote" /\ eng'.pc = "assign" /\ eng'.rows = eng.rows
          /\ UNCHANGED tasks
      BY <1>5, <1>11 DEF CheckGates, storeVars
    <2>2. RowsAsRead'
      BY <2>1 DEF StatusInv, RowsAsRead
    <2> QED
      BY <1>2, <2>1, <2>2 DEF StatusInv
  <1>12. CASE Assign
    <2>1. PICK k \in eng.rows :
             /\ SetTaskStatus(k, IF eng.gate THEN "assigned" ELSE "pending")
             /\ eng'.pc = "promote" /\ eng'.rows = eng.rows \ {k}
      BY <1>5, <1>12 DEF Assign
    <2>2. PICK st \in {"assigned", "pending"} : SetTaskStatus(k, st)
      BY <2>1
    <2>3. k \in Rows /\ tasks[k].status = "pending"
      BY <1>12 DEF Assign, StatusInv, RowsAsRead
    <2>4. /\ DOMAIN tasks' = Rows
          /\ \A j \in Rows : tasks'[j] = IF j = k THEN [tasks[j] EXCEPT !.status = st]
                                                  ELSE tasks[j]
      BY <1>1, <2>2, SetTaskStatusType DEF TaskStatus
    <2>5. /\ \A j \in Rows : j # k => tasks'[j] = tasks[j]
          /\ tasks'[k].robot = tasks[k].robot /\ tasks'[k].status = st
      BY <1>1, <2>3, <2>4 DEF TaskRow
    <2>6. Handshake'
      BY <2>3, <2>4, <2>5, RankOf, HandshakeKept DEF StatusInv
    <2>7. RowsAsRead'
      BY <1>12, <2>1, <2>4, <2>5 DEF Assign, StatusInv, RowsAsRead
    <2>8. \A j \in Rows : StatusStep(j)
      BY <2>3, <2>5, RankOf DEF StatusStep
    <2> QED
      BY <2>6, <2>7, <2>8 DEF StatusInv
  <1>13. CASE CountFailures
    BY <1>3, <1>5, <1>13 DEF CountFailures, storeVars
  <1>14. CASE SetRollingBack
    BY <1>3, <1>5, <1>14 DEF SetRollingBack
  <1>15. CASE CollectRollbacks
    BY <1>3, <1>5, <1>15 DEF CollectRollbacks, storeVars
  <1>16. CASE CreateRollback
    <2>1. PICK t \in eng.todo, prev \in Version :
             /\ CreateTask([dep |-> eng.dep, robot |-> t.robot, is_rollback |-> TRUE,
                            stage |-> eng.stage, status |-> "pending",
                            from_version |-> Release[eng.dep], to_version |-> prev])
             /\ \/ eng' = Idle(eng.queue)
                \/ eng' = [eng EXCEPT !.todo = @ \ {t}]
      BY <1>16 DEF CreateRollback, Return
    <2> DEFINE row == [dep |-> eng.dep, robot |-> t.robot, is_rollback |-> TRUE,
                       stage |-> eng.stage, status |-> "pending",
                       from_version |-> Release[eng.dep], to_version |-> prev]
    <2>2. row \in TaskRow
      BY <1>16, NewRowTyped DEF CreateRollback
    <2>3. CreateTask(row) /\ eng.pc = "rollback"
          /\ (eng'.pc = "idle" \/ eng'.pc = eng.pc)
      BY <1>0, <1>5, <1>16, <2>1 DEF CreateRollback
    <2> HIDE DEF row
    <2> QED
      BY <1>4, <2>2, <2>3
  <1>17. CASE Halt
    BY <1>0, <1>3, <1>17 DEF Halt, Return
  <1>18. CASE StageRead
    BY <1>0, <1>3, <1>5, <1>18 DEF StageRead, Return, storeVars
  <1>19. CASE Advance
    BY <1>0, <1>3, <1>19 DEF Advance, Return
  <1>20. CASE Complete
    BY <1>0, <1>3, <1>20 DEF Complete, Return
  <1>21. CASE NormaliseRead
    <2>1. \A k \in eng'.rows : k \in Rows /\ tasks[k].is_rollback
                              /\ tasks[k].status = "succeeded"
      BY <1>5, <1>21 DEF NormaliseRead, WithStatus, Rollbacks, TasksOf
    <2>2. eng'.pc = "normalise" /\ UNCHANGED tasks
      BY <1>5, <1>21 DEF NormaliseRead, storeVars
    <2>3. RowsAsRead'
      BY <2>1, <2>2 DEF RowsAsRead
    <2> QED
      BY <1>2, <2>2, <2>3 DEF StatusInv
  <1>22. CASE Normalise
    <2>1. PICK k \in eng.rows :
             /\ SetTaskStatus(k, "rolled_back")
             /\ eng'.pc = "normalise" /\ eng'.rows = eng.rows \ {k}
      BY <1>5, <1>22 DEF Normalise
    <2>3. k \in Rows /\ tasks[k].is_rollback /\ tasks[k].status = "succeeded"
      BY <1>22 DEF Normalise, StatusInv, RowsAsRead
    <2>4. /\ DOMAIN tasks' = Rows
          /\ \A j \in Rows : tasks'[j] =
                IF j = k THEN [tasks[j] EXCEPT !.status = "rolled_back"] ELSE tasks[j]
      BY <1>1, <2>1, SetTaskStatusType DEF TaskStatus, Terminal
    <2>5. /\ \A j \in Rows : j # k => tasks'[j] = tasks[j]
          /\ tasks'[k].robot = tasks[k].robot /\ tasks'[k].status = "rolled_back"
      BY <1>1, <2>3, <2>4 DEF TaskRow
    <2>6. Handshake'
      BY <2>3, <2>4, <2>5, RankOf, HandshakeKept DEF StatusInv
    <2>7. RowsAsRead'
      BY <1>22, <2>1, <2>4, <2>5 DEF Normalise, StatusInv, RowsAsRead
    <2>8. \A j \in Rows : StatusStep(j)
      BY <2>3, <2>5 DEF StatusStep
    <2> QED
      BY <2>6, <2>7, <2>8 DEF StatusInv
  <1>23. CASE FinishRead
    BY <1>0, <1>3, <1>5, <1>23 DEF FinishRead, Return, storeVars
  <1> QED
    BY <1>6, <1>7, <1>8, <1>9, <1>10, <1>11, <1>12, <1>13, <1>14, <1>15, <1>16,
       <1>17, <1>18, <1>19, <1>20, <1>21, <1>22, <1>23 DEF EngineNext

LEMMA HandlerStatus ==
    ASSUME TypeOK, StatusInv, NEW c \in calls, Handle(c), UNCHANGED <<eng, agent>>
    PROVE  StatusInv' /\ \A k \in Rows : StatusStep(k)
  <1>1. /\ StoreTypeOK /\ \A k \in Rows : tasks[k] \in TaskRow
        /\ c \in Call /\ calls \subseteq Call
    BY DEF TypeOK, StoreTypeOK, ApiTypeOK
  <1>2. ASSUME NEW step \in {"registered", "version"}, Step(c, step)
        PROVE  /\ OneCall'
               /\ \A b \in calls' : IsReport(b) => b \in calls /\ b # c
               /\ \A b \in calls : b # c => b.robot # c.robot
    <2> DEFINE moved == [c EXCEPT !.step = step]
    <2>1. /\ moved.robot = c.robot /\ moved.waiting = c.waiting /\ moved.step = step
      BY <1>1 DEF Call
    <2>2. calls' = (calls \ {c}) \cup {moved}
      BY <1>2 DEF Step
    <2> HIDE DEF moved
    <2>3. \A b \in calls : b # c => b.robot # c.robot
      BY DEF StatusInv, Handshake, OneCall
    <2> QED
      BY <2>1, <2>2, <2>3 DEF StatusInv, Handshake, OneCall, IsReport
  <1>3. CASE c.status = "heartbeat" \/ c.step = "version"
    <2>1. UNCHANGED tasks
      BY <1>3 DEF Handle, Register, UpdateRobotState, TaskStatusWrite, VersionWrite
    <2>2. \/ \E step \in {"registered", "version"} : Step(c, step)
          \/ calls' = calls \ {c}
      BY <1>3 DEF Handle, Register, UpdateRobotState, TaskStatusWrite, VersionWrite
    <2>3. OneCall' /\ \A b \in calls' : IsReport(b) => b \in calls
      BY <1>2, <2>2 DEF StatusInv, Handshake, OneCall
    <2>4. Handshake'
      BY <2>1, <2>3 DEF StatusInv, Handshake, AgentsUp, ReportAhead, AgentsOnRows, IsReport
    <2>5. RowsAsRead'
      BY <2>1 DEF StatusInv, RowsAsRead
    <2> QED
      BY <2>1, <2>4, <2>5 DEF StatusInv, StatusStep
  <1>4. CASE TaskStatusWrite(c)
    <2> DEFINE k == c.task
    <2>1. /\ IsReport(c) /\ SetTaskStatus(k, c.status) /\ Step(c, "version")
          /\ c.robot \in Robot /\ k \in Nat /\ c.status \in TaskStatus
      BY <1>1, <1>4, StatusTyped DEF TaskStatusWrite, IsReport, Call
    <2>2. /\ k \in Rows /\ tasks[k].robot = c.robot
          /\ 1 <= Rank(tasks[k].status) /\ Rank(tasks[k].status) < Rank(c.status)
          /\ agent[c.robot].pc \in Updating =>
                /\ agent[c.robot].task = k
                /\ Rank(c.status) <= PcRank(agent[c.robot].pc)
      BY <2>1 DEF StatusInv, Handshake, ReportAhead
    <2>3. /\ Rank(tasks[k].status) \in 0..5 /\ Rank(c.status) \in 0..5
          /\ tasks[k].status # "pending" /\ tasks[k].status # "succeeded"
      BY <2>1, <2>2, StatusTyped, RankOf
    <2>4. /\ DOMAIN tasks' = Rows
          /\ \A j \in Rows : tasks'[j] = IF j = k THEN [tasks[j] EXCEPT !.status = c.status]
                                                  ELSE tasks[j]
      BY <1>1, <2>1, SetTaskStatusType
    <2>5. /\ \A j \in Rows : j # k => tasks'[j] = tasks[j]
          /\ tasks'[k].robot = tasks[k].robot /\ tasks'[k].status = c.status
      BY <1>1, <2>2, <2>4 DEF TaskRow
    <2>6. /\ OneCall' /\ \A b \in calls' : IsReport(b) => b \in calls /\ b # c
          /\ \A b \in calls : b # c => b.robot # c.robot
      BY <1>2, <2>1
    <2> HIDE DEF k
    <2>7. ReportAhead'
      <3> SUFFICES ASSUME NEW b \in calls', IsReport(b)
                   PROVE  /\ b.task \in Rows /\ tasks'[b.task].robot = b.robot
                          /\ 1 <= Rank(tasks'[b.task].status)
                          /\ Rank(tasks'[b.task].status) < Rank(b.status)
                          /\ agent[b.robot].pc \in Updating =>
                                /\ agent[b.robot].task = b.task
                                /\ Rank(b.status) <= PcRank(agent[b.robot].pc)
        BY <2>4 DEF ReportAhead, IsReport
      <3>1. b \in calls /\ b.robot # c.robot
        BY <2>6
      <3>2. b.task \in Rows /\ tasks[b.task].robot = b.robot
        BY <3>1 DEF StatusInv, Handshake, ReportAhead
      <3>3. tasks'[b.task] = tasks[b.task]
        BY <2>2, <2>5, <3>1, <3>2
      <3> QED
        BY <3>1, <3>3 DEF StatusInv, Handshake, ReportAhead
    <2>8. AgentsOnRows'
      <3> SUFFICES ASSUME NEW r \in Robot, agent[r].pc \in Updating
                   PROVE  /\ agent[r].task \in Rows
                          /\ tasks'[agent[r].task].robot = r
                          /\ 1 <= Rank(tasks'[agent[r].task].status)
                          /\ Rank(tasks'[agent[r].task].status) <= PcRank(agent[r].pc)
        BY <2>4 DEF AgentsOnRows
      <3>1. /\ agent[r].task \in Rows /\ tasks[agent[r].task].robot = r
            /\ 1 <= Rank(tasks[agent[r].task].status)
            /\ Rank(tasks[agent[r].task].status) <= PcRank(agent[r].pc)
        BY DEF StatusInv, Handshake, AgentsOnRows
      <3>2. CASE agent[r].task = k
        BY <2>2, <2>3, <2>5, <3>1, <3>2
      <3>3. CASE agent[r].task # k
        BY <2>5, <3>1, <3>3
      <3> QED
        BY <3>2, <3>3
    <2>9. RowsAsRead'
      <3>1. eng.pc \in {"promote", "assign"} => k \notin eng.rows
        BY <2>3 DEF StatusInv, RowsAsRead
      <3>2. eng.pc = "normalise" => k \notin eng.rows
        BY <2>3 DEF StatusInv, RowsAsRead
      <3> QED
        BY <2>4, <2>5, <3>1, <3>2 DEF StatusInv, RowsAsRead
    <2>10. \A j \in Rows : StatusStep(j)
      BY <2>2, <2>5 DEF StatusStep
    <2> QED
      BY <2>6, <2>7, <2>8, <2>9, <2>10 DEF StatusInv, Handshake, AgentsUp
  <1> QED
    BY <1>3, <1>4 DEF Handle, Register, UpdateRobotState, TaskStatusWrite, VersionWrite

(* A report that is ahead of its task and not ahead of its agent.          *)
LEMMA ReportStatus ==
    ASSUME TypeOK, Handshake, NEW r \in Robot, NEW status \in AgentStatus,
           NEW next, Report(r, status, next), ~Blocked(r), UNCHANGED tasks,
           agent[r].pc \in Updating, PcRank(agent[r].pc) < Rank(status),
           next.pc # "down",
           next.pc \in Updating => /\ next.task = agent[r].task
                                   /\ Rank(status) <= PcRank(next.pc)
    PROVE  Handshake'
  <1>1. agent \in [Robot -> AgentState]
    BY DEF TypeOK, AgentTypeOK
  <1>2. agent'[r] = next /\ \A q \in Robot : q # r => agent'[q] = agent[q]
    BY <1>1 DEF Report
  <1>3. \A c \in calls : c.robot # r
    BY DEF Handshake, OneCall, Blocked, CallsOf
  <1> DEFINE new == StatusCall(r, agent[r].task, status, next.version)
  <1>4. /\ new.robot = r /\ new.task = agent[r].task /\ new.status = status
        /\ new.step = "new" /\ new.waiting
    BY DEF StatusCall
  <1>5. calls' = calls \cup {new}
    BY DEF Report
  <1> HIDE DEF new
  <1>6. /\ agent[r].task \in Rows /\ tasks[agent[r].task].robot = r
        /\ 1 <= Rank(tasks[agent[r].task].status)
        /\ Rank(tasks[agent[r].task].status) <= PcRank(agent[r].pc)
    BY DEF Handshake, AgentsOnRows
  <1>7. /\ Rank(tasks[agent[r].task].status) \in 0..5 /\ Rank(status) \in 0..5
        /\ PcRank(agent[r].pc) \in 1..4 /\ PcRank(next.pc) \in 1..4
    BY <1>6, StatusTyped, RankOf, PcRankOf DEF TaskStatus
  <1>8. AgentsUp' /\ OneCall'
    BY <1>2, <1>3, <1>4, <1>5 DEF Handshake, AgentsUp, OneCall
  <1>9. AgentsOnRows'
    BY <1>2, <1>6, <1>7 DEF Handshake, AgentsOnRows
  <1>10. ReportAhead'
    <2> SUFFICES ASSUME NEW c \in calls', IsReport(c)
                 PROVE  /\ c.task \in Rows /\ tasks[c.task].robot = c.robot
                        /\ 1 <= Rank(tasks[c.task].status)
                        /\ Rank(tasks[c.task].status) < Rank(c.status)
                        /\ agent'[c.robot].pc \in Updating =>
                              /\ agent'[c.robot].task = c.task
                              /\ Rank(c.status) <= PcRank(agent'[c.robot].pc)
      BY DEF ReportAhead, IsReport
    <2>1. CASE c = new
      BY <1>2, <1>4, <1>6, <1>7, <2>1
    <2>2. CASE c \in calls
      <3>1. c.robot \in Robot /\ agent'[c.robot] = agent[c.robot]
        BY <1>2, <1>3, <2>2, StatusTyped
      <3> QED
        BY <2>2, <3>1 DEF Handshake, ReportAhead
    <2> QED
      BY <1>5, <2>1, <2>2
  <1> QED
    BY <1>8, <1>9, <1>10 DEF Handshake

LEMMA StepOfAgent ==
    ASSUME TypeOK, Handshake, NEW r \in Robot, AgentStep(r)
    PROVE  Handshake' /\ UNCHANGED tasks
  <1>1. /\ agent \in [Robot -> AgentState] /\ agent[r] \in AgentState
        /\ UNCHANGED tasks
    BY DEF TypeOK, AgentTypeOK, AgentStep, Heartbeat, Poll, Preflight, Download, Apply,
           Verify, storeVars
  <1>2. agent[r] = [pc |-> agent[r].pc, task |-> agent[r].task,
                    version |-> agent[r].version, installed |-> agent[r].installed,
                    state |-> agent[r].state, mission_ticks |-> agent[r].mission_ticks]
    BY <1>1 DEF AgentState
  <1>3. CASE Heartbeat(r)
    <2>1. PICK battery \in 0..MaxBattery :
             LET next == AfterTick(agent[r], battery) IN
             /\ agent' = [agent EXCEPT ![r] = next]
             /\ calls' = calls \cup {HeartbeatCall(r, next.version, next.state)}
      BY <1>3 DEF Heartbeat
    <2> DEFINE next == AfterTick(agent[r], battery)
               new == HeartbeatCall(r, next.version, next.state)
    <2>2. next.pc = "poll"
      BY <1>2 DEF AfterTick
    <2>3. new.robot = r /\ new.waiting /\ ~IsReport(new)
      BY DEF HeartbeatCall, IsReport
    <2>4. agent' = [agent EXCEPT ![r] = next] /\ calls' = calls \cup {new}
      BY <2>1
    <2> HIDE DEF next, new
    <2>5. \A c \in calls : c.robot # r /\ c.robot \in Robot
      BY <1>3, StatusTyped DEF Heartbeat, Ready, Blocked, CallsOf, Handshake, OneCall
    <2>6. agent'[r].pc = "poll" /\ \A q \in Robot : q # r => agent'[q] = agent[q]
      BY <1>1, <2>2, <2>4
    <2>7. AgentsUp' /\ OneCall'
      BY <2>3, <2>4, <2>5, <2>6 DEF Handshake, AgentsUp, OneCall
    <2>8. ReportAhead'
      BY <1>1, <2>3, <2>4, <2>5, <2>6 DEF Handshake, ReportAhead, IsReport
    <2>9. AgentsOnRows'
      BY <1>1, <2>6 DEF Handshake, AgentsOnRows, Updating
    <2> QED
      BY <1>1, <2>7, <2>8, <2>9 DEF Handshake
  <1>4. CASE Poll(r)
    <2> DEFINE offered == WithStatus(ActiveTask(r), {"assigned"})
    <2>1. /\ UNCHANGED <<tasks, calls>>
          /\ \A c \in calls : c.robot # r /\ c.robot \in Robot
          /\ \A q \in Robot : q # r => agent'[q] = agent[q]
      BY <1>1, <1>4, StatusTyped
         DEF Poll, Ready, Blocked, CallsOf, Handshake, OneCall, storeVars
    <2>2. \/ agent'[r].pc = "idle"
          \/ agent'[r].pc = "preflight" /\ agent'[r].task \in offered
      <3>1. CASE offered = {}
        BY <1>1, <1>2, <1>4, <3>1 DEF Poll
      <3>2. CASE offered # {}
        <4>1. (CHOOSE k \in offered : TRUE) \in offered
          BY <3>2
        <4> QED
          BY <1>1, <1>2, <1>4, <3>2, <4>1 DEF Poll
      <3> QED
        BY <3>1, <3>2
    <2>3. \A k \in offered : /\ k \in Rows /\ tasks[k].robot = r
                             /\ tasks[k].status = "assigned"
      BY DEF WithStatus, ActiveTask, Newest
    <2> HIDE DEF offered
    <2>4. AgentsUp' /\ OneCall'
      BY <2>1, <2>2 DEF Handshake, AgentsUp, OneCall
    <2>5. ReportAhead'
      BY <2>1 DEF Handshake, ReportAhead, IsReport
    <2>6. AgentsOnRows'
      BY <2>1, <2>2, <2>3, RankOf, PcRankOf DEF Handshake, AgentsOnRows, Updating
    <2> QED
      BY <1>1, <2>4, <2>5, <2>6 DEF Handshake
  <1>5. ASSUME Ready(r, agent[r].pc), agent[r].pc \in Updating,
               NEW next, next.pc = "idle", Report(r, "failed", next)
        PROVE  Handshake'
    <2>1. ~Blocked(r) /\ PcRank(agent[r].pc) < Rank("failed")
      BY <1>5, RankOf, PcRankOf DEF Ready
    <2>2. next.pc # "down" /\ next.pc \notin Updating
      BY <1>5 DEF Updating
    <2> QED
      BY <1>1, <1>5, <2>1, <2>2, ReportStatus DEF AgentStatus
  <1>6. ASSUME Ready(r, agent[r].pc), Fail(r), agent[r].pc \in Updating
        PROVE  Handshake'
    <2>1. [agent[r] EXCEPT !.pc = "idle", !.task = 0].pc = "idle"
      BY <1>2
    <2> QED
      BY <1>5, <1>6, <2>1 DEF Fail
  <1>7. CASE Preflight(r)
    <2>1. Ready(r, agent[r].pc) /\ agent[r].pc = "preflight" /\ ~Blocked(r)
      BY <1>7 DEF Preflight, Ready
    <2>2. CASE Fail(r)
      BY <1>1, <1>6, <2>1, <2>2 DEF Updating
    <2>3. CASE Report(r, "downloading", To(r, "download"))
      <3>1. To(r, "download").pc = "download" /\ To(r, "download").task = agent[r].task
        BY <1>2 DEF To
      <3> QED
        BY <1>1, <2>1, <2>3, <3>1, RankOf, PcRankOf, ReportStatus
           DEF AgentStatus, Updating
    <2> QED
      BY <1>7, <2>2, <2>3 DEF Preflight
  <1>8. CASE Download(r)
    <2>1. Ready(r, agent[r].pc) /\ agent[r].pc = "download" /\ ~Blocked(r)
      BY <1>8 DEF Download, Ready
    <2>2. CASE Fail(r)
      BY <1>1, <1>6, <2>1, <2>2 DEF Updating
    <2>3. CASE Report(r, "applying", To(r, "apply"))
      <3>1. To(r, "apply").pc = "apply" /\ To(r, "apply").task = agent[r].task
        BY <1>2 DEF To
      <3> QED
        BY <1>1, <2>1, <2>3, <3>1, RankOf, PcRankOf, ReportStatus
           DEF AgentStatus, Updating
    <2> QED
      BY <1>8, <2>2, <2>3 DEF Download
  <1>9. CASE Apply(r)
    <2>1. Ready(r, agent[r].pc) /\ agent[r].pc = "apply" /\ ~Blocked(r)
      BY <1>9 DEF Apply, Ready
    <2>2. CASE Fail(r)
      BY <1>1, <1>6, <2>1, <2>2 DEF Updating
    <2>3. CASE Report(r, "verifying", [To(r, "verify") EXCEPT !.version = Goal(r),
                                                              !.installed = Goal(r)])
      <3> DEFINE next == [To(r, "verify") EXCEPT !.version = Goal(r), !.installed = Goal(r)]
      <3>1. next.pc = "verify" /\ next.task = agent[r].task
        BY <1>2 DEF To
      <3>2. Report(r, "verifying", next)
        BY <2>3
      <3> HIDE DEF next
      <3> QED
        BY <1>1, <2>1, <3>1, <3>2, RankOf, PcRankOf, ReportStatus
           DEF AgentStatus, Updating
    <2>4. CASE Report(r, "failed", [agent[r] EXCEPT !.pc = "idle", !.task = 0,
                                                   !.installed = Goal(r)])
      <3> DEFINE next == [agent[r] EXCEPT !.pc = "idle", !.task = 0,
                                          !.installed = Goal(r)]
      <3>1. next.pc = "idle"
        BY <1>2
      <3>2. Report(r, "failed", next)
        BY <2>4
      <3> HIDE DEF next
      <3> QED
        BY <1>1, <1>5, <2>1, <3>1, <3>2 DEF Updating
    <2>5. CASE Report(r, "verifying", [To(r, "verify") EXCEPT !.version = Goal(r)])
      <3> DEFINE next == [To(r, "verify") EXCEPT !.version = Goal(r)]
      <3>1. next.pc = "verify" /\ next.task = agent[r].task
        BY <1>2 DEF To
      <3>2. Report(r, "verifying", next)
        BY <2>5
      <3> HIDE DEF next
      <3> QED
        BY <1>1, <2>1, <3>1, <3>2, RankOf, PcRankOf, ReportStatus
           DEF AgentStatus, Updating
    <2> QED
      BY <1>9, <2>2, <2>3, <2>4, <2>5 DEF Apply
  <1>10. CASE Verify(r)
    <2>1. Ready(r, agent[r].pc) /\ agent[r].pc = "verify" /\ ~Blocked(r)
      BY <1>10 DEF Verify, Ready
    <2>2. CASE Fail(r)
      BY <1>1, <1>6, <2>1, <2>2 DEF Updating
    <2>3. CASE Report(r, "succeeded", [To(r, "idle") EXCEPT !.task = 0])
      <3> DEFINE next == [To(r, "idle") EXCEPT !.task = 0]
      <3>1. next.pc = "idle"
        BY <1>2 DEF To
      <3>2. Report(r, "succeeded", next)
        BY <2>3
      <3> HIDE DEF next
      <3>3. next.pc # "down" /\ next.pc \notin Updating
        BY <3>1 DEF Updating
      <3> QED
        BY <1>1, <2>1, <3>2, <3>3, RankOf, PcRankOf, ReportStatus
           DEF AgentStatus, Updating
    <2> QED
      BY <1>10, <2>2, <2>3 DEF Verify
  <1> QED
    BY <1>1, <1>3, <1>4, <1>7, <1>8, <1>9, <1>10 DEF AgentStep

-----------------------------------------------------------------------------
(* Requests are answered or lost; no agent gives up on one or restarts.    *)
InStep == Faults \cap {"late", "crash"} = {}

LEMMA StepOfFaults ==
    ASSUME InStep, TypeOK, StatusInv, FaultMoves
    PROVE  StatusInv' /\ UNCHANGED tasks
  <1>1. ~Fault("late") /\ ~Fault("crash")
    BY DEF InStep, Fault
  <1>2. agent \in [Robot -> AgentState] /\ UNCHANGED tasks
    BY DEF FaultMoves, LoseCall, Timeout, AgentCrash, AgentRestart, UpdateRaises,
           ServerRestart, EngineError, TypeOK, AgentTypeOK
  <1>3. ASSUME UNCHANGED agent, calls' \subseteq calls PROVE Handshake'
    BY <1>2, <1>3, HandshakeKept DEF StatusInv
  <1>4. ASSUME UNCHANGED eng \/ eng'.pc = "idle" PROVE RowsAsRead'
    BY <1>2, <1>4 DEF StatusInv, RowsAsRead
  <1>5. \A queue : Idle(queue).pc = "idle"
    BY DEF Idle
  <1>6. CASE \E c \in calls : LoseCall(c) \/ Timeout(c)
    BY <1>1, <1>2, <1>3, <1>4, <1>6 DEF LoseCall, Timeout, StatusInv
  <1>7. ASSUME NEW r \in Robot, AgentCrash(r) \/ AgentRestart(r) \/ UpdateRaises(r)
        PROVE  StatusInv'
    <2>1. UpdateRaises(r)
      BY <1>1, <1>7 DEF AgentCrash, AgentRestart, StatusInv, Handshake, AgentsUp
    <2>2. /\ agent'[r].pc = "idle" /\ UNCHANGED <<calls, eng>>
          /\ \A q \in Robot : q # r => agent'[q] = agent[q]
      <3>1. [agent[r] EXCEPT !.pc = "idle", !.task = 0].pc = "idle"
        BY <1>2 DEF AgentState
      <3> QED
        BY <1>2, <2>1, <3>1 DEF UpdateRaises
    <2>3. \A c \in calls : c.robot # r /\ c.robot \in Robot
      BY <2>1, StatusTyped DEF UpdateRaises, Ready, Blocked, CallsOf, StatusInv,
                               Handshake, OneCall
    <2>4. AgentsUp' /\ OneCall'
      BY <2>2 DEF StatusInv, Handshake, AgentsUp, OneCall
    <2>5. ReportAhead'
      BY <1>2, <2>2, <2>3 DEF StatusInv, Handshake, ReportAhead, IsReport
    <2>6. AgentsOnRows'
      BY <1>2, <2>2 DEF StatusInv, Handshake, AgentsOnRows, Updating
    <2> QED
      BY <1>2, <1>4, <2>2, <2>4, <2>5, <2>6 DEF StatusInv, Handshake
  <1>8. CASE ServerRestart \/ EngineError
    BY <1>2, <1>3, <1>4, <1>5, <1>8 DEF ServerRestart, EngineError, Return, StatusInv
  <1> QED
    BY <1>2, <1>6, <1>7, <1>8 DEF FaultMoves

LEMMA StepStatus ==
    ASSUME InStep, TypeInv, StatusInv, [Next]_vars
    PROVE  StatusInv' /\ \A k \in Rows : StatusStep(k)
  <1>1. TypeOK
    BY DEF TypeInv
  <1>2. ASSUME UNCHANGED <<tasks, eng>>, Handshake'
        PROVE  StatusInv' /\ \A k \in Rows : StatusStep(k)
    BY <1>2 DEF StatusInv, RowsAsRead, StatusStep
  <1>3. ASSUME UNCHANGED <<tasks, eng, agent, calls>>
        PROVE  StatusInv' /\ \A k \in Rows : StatusStep(k)
    <2>1. Handshake'
      BY <1>1, <1>3, HandshakeKept DEF StatusInv
    <2> QED
      BY <1>2, <1>3, <2>1
  <1>4. CASE EngineMoves
    BY <1>1, <1>4, EngineStatus DEF EngineMoves, TypeInv
  <1>5. ASSUME NEW r \in Robot, HandlerMoves(r)
        PROVE  StatusInv' /\ \A k \in Rows : StatusStep(k)
    BY <1>1, <1>5, HandlerStatus DEF HandlerMoves, CallsOf
  <1>6. ASSUME NEW r \in Robot, AgentMoves(r)
        PROVE  StatusInv' /\ \A k \in Rows : StatusStep(k)
    BY <1>1, <1>2, <1>6, StepOfAgent DEF AgentMoves, StatusInv
  <1>7. ASSUME NEW r \in Robot, RegisterRobot(r) \/ HeartbeatStale(r)
        PROVE  StatusInv' /\ \A k \in Rows : StatusStep(k)
    BY <1>3, <1>7 DEF RegisterRobot, HeartbeatStale
  <1>8. CASE OperatorMoves
    BY <1>3, <1>8 DEF OperatorMoves, CreateDeployment, Pause, Resume
  <1>9. CASE FaultMoves
    BY <1>1, <1>9, StepOfFaults DEF StatusStep
  <1>10. CASE UNCHANGED vars
    BY <1>3, <1>10 DEF vars
  <1> QED
    BY <1>4, <1>5, <1>6, <1>7, <1>8, <1>9, <1>10 DEF Next

LEMMA InitStatus == ASSUME Init PROVE StatusInv
  <1>1. calls = {} /\ eng.pc = "idle"
    BY DEF Init, ApiInit, EngineInit, Idle
  <1>2. \A r \in Robot : agent[r].pc = "idle"
    BY DEF Init, AgentInit, Started
  <1> QED
    BY <1>1, <1>2
       DEF StatusInv, RowsAsRead, Handshake, AgentsUp, OneCall, ReportAhead,
           AgentsOnRows, Updating

LEMMA StatusCorrect == ASSUME InStep PROVE Spec => []StatusInv
  <1>1. Init => StatusInv
    BY InitStatus
  <1>2. TypeInv /\ StatusInv /\ [Next]_vars => StatusInv'
    BY StepStatus
  <1> QED
    BY InitType, StepType, <1>1, <1>2, PTL DEF Spec

(* An agent in its pipeline works on a row of its own that is neither      *)
(* pending nor closed, whatever is lost, raised or restarted on the server *)
(* side, as long as no agent gives up waiting for a report it has sent.    *)
THEOREM AgentOwnsTaskHolds ==
    ASSUME InStep
    PROVE  Spec => []AgentOwnsTask
  <1>1. TypeInv /\ StatusInv => AgentOwnsTask
    <2> SUFFICES ASSUME TypeInv, StatusInv, NEW r \in Robot, agent[r].pc \in Updating
                 PROVE  /\ agent[r].task \in Rows
                        /\ tasks[agent[r].task].robot = r
                        /\ tasks[agent[r].task].status \notin Terminal \cup {"pending"}
      BY DEF AgentOwnsTask
    <2>1. /\ agent[r].task \in Rows /\ tasks[agent[r].task].robot = r
          /\ 1 <= Rank(tasks[agent[r].task].status)
          /\ Rank(tasks[agent[r].task].status) <= PcRank(agent[r].pc)
      BY DEF StatusInv, Handshake, AgentsOnRows
    <2>2. tasks[agent[r].task].status \in TaskStatus /\ PcRank(agent[r].pc) \in 1..4
      BY <2>1, StatusTyped, PcRankOf DEF TypeInv
    <2> QED
      BY <2>1, <2>2, RankOf
  <1> QED
    BY InitType, StepType, StatusCorrect, <1>1, PTL DEF Spec

(* Under the same assumption the status of a task only moves forward, and  *)
(* a terminal one is final, whoever writes it: reports go out and are      *)
(* served one at a time, and the engine's stale rows are pending or closed.*)
THEOREM StatusMonotoneHolds ==
    ASSUME InStep
    PROVE  Spec => StatusMonotone
  <1>1. TypeInv /\ StatusInv /\ [Next]_vars => [\A k \in Rows : StatusStep(k)]_vars
    BY StepStatus
  <1> QED
    BY InitType, StepType, StatusCorrect, <1>1, PTL DEF Spec, StatusMonotone
=============================================================================
