------------------------------- MODULE Engine ------------------------------
(***************************************************************************)
(* The rollout engine (control-plane/engine.py), ticked by one thread      *)
(* (app.py:56-67).  A tick walks the deployments; for each it makes a      *)
(* sequence of store calls, and each action below is one of them: other    *)
(* threads run between any two.  eng holds the locals of the tick, that    *)
(* is, everything it has read and may since be out of date.                *)
(***************************************************************************)
EXTENDS Store

VARIABLE eng

engineVars == <<storeVars, eng>>

EnginePc == {"idle", "ensure", "create", "promote", "assign", "count",
             "set_rolling_back", "collect", "rollback", "halt",
             "stage", "advance", "complete", "normalise"}

(* An entry of the fleet snapshot: the columns the engine uses later.      *)
Seen == [robot: Robot, version: Version]

EngineTypeOK ==
    eng \in [pc: EnginePc, queue: SUBSET Dep, dep: Dep \cup {0}, stage: Nat,
             only_rollback: BOOLEAN, rows: SUBSET Nat, todo: SUBSET Seen,
             gate: BOOLEAN]

Idle(queue) ==
    [pc |-> "idle", queue |-> queue, dep |-> 0, stage |-> 0,
     only_rollback |-> FALSE, rows |-> {}, todo |-> {}, gate |-> FALSE]

EngineInit == eng = Idle({})

Return == eng' = Idle(eng.queue)

-----------------------------------------------------------------------------
(* Staging arithmetic. *)

Smaller(a, b) == IF a <= b THEN a ELSE b
Larger(a, b)  == IF a >= b THEN a ELSE b

MaxStage(d) == Len(Strategy[d].stage_fractions)

(* math.ceil(frac * n), with frac in percent. *)
CeilOf(percent, n) == (percent * n + 99) \div 100

Target(d, stage, n) ==
    IF stage = 0 THEN Smaller(Strategy[d].canary_count, n)
    ELSE LET fracs == Strategy[d].stage_fractions
         IN  Smaller(n, Larger(1, CeilOf(fracs[Smaller(stage, Len(fracs))], n)))

(* A mutant of GatesPass: the mission gate is missing.                     *)
GatesPassOnMission(d, r) ==
    LET row == robots[r] IN
    /\ row.fresh
    /\ Gates[d].require_docked => row.state.docked \/ row.state.charging
    /\ row.state.battery >= Gates[d].min_battery
    /\ r \in Compat[d]

(* check_gates on the row get_robot has just returned.  Agents always      *)
(* report connectivity "ok", so that gate is left out.                     *)
GatesPass(d, r) ==
    LET row == robots[r] IN
    /\ row.fresh
    /\ ~row.state.on_mission
    /\ Gates[d].require_docked => row.state.docked \/ row.state.charging
    /\ row.state.battery >= Gates[d].min_battery
    /\ r \in Compat[d]

-----------------------------------------------------------------------------
(* One tick. *)

(* list_deployments: the deployments this tick will visit.                 *)
Tick ==
    /\ eng.pc = "idle" /\ eng.queue = {}
    /\ \E d \in Dep : deps[d].status # "none"
    /\ eng' = [eng EXCEPT !.queue = {d \in Dep : deps[d].status # "none"}]
    /\ UNCHANGED storeVars

(* get_deployment for the next deployment, newest first, and the branch on *)
(* its status; the later steps keep using this snapshot.                   *)
Load ==
    /\ eng.pc = "idle"
    /\ \E d \in eng.queue :
          /\ \A e \in eng.queue : e <= d
          /\ LET rest == eng.queue \ {d}
                 work == [Idle(rest) EXCEPT !.dep = d, !.stage = deps[d].stage]
             IN  eng' = CASE deps[d].status = "running" ->
                                [work EXCEPT !.pc = "ensure"]
                          [] deps[d].status = "rolling_back" ->
                                [work EXCEPT !.pc = "create", !.only_rollback = TRUE]
                          [] OTHER -> Idle(rest)
    /\ UNCHANGED storeVars

(* A mutant of Ensure: it opens the targets of the stage after.            *)
EnsureNextStage ==
    /\ eng.pc = "ensure"
    /\ LET targets == Prefix(Fleet, Target(eng.dep, eng.stage + 1, Cardinality(Fleet)))
       IN  eng' = [eng EXCEPT !.pc = "create",
                     !.todo = {[robot |-> r, version |-> robots[r].version] :
                                r \in {q \in targets : RobotTasks(eng.dep, q) = {}}}]
    /\ UNCHANGED storeVars

(* fleet_robots: the target robots of the stage that have no task yet (only *)
(* this thread creates tasks, so the robot_task checks of the loop may be   *)
(* made here).                                                              *)
Ensure ==
    /\ eng.pc = "ensure"
    /\ LET targets == Prefix(Fleet, Target(eng.dep, eng.stage, Cardinality(Fleet)))
       IN  eng' = [eng EXCEPT !.pc = "create",
                     !.todo = {[robot |-> r, version |-> robots[r].version] :
                                r \in {q \in targets : RobotTasks(eng.dep, q) = {}}}]
    /\ UNCHANGED storeVars

EnsureTask ==
    /\ eng.pc = "create"
    /\ \E t \in eng.todo :
          /\ \A u \in eng.todo : t.robot <= u.robot
          /\ CreateTask([dep |-> eng.dep, robot |-> t.robot, is_rollback |-> FALSE,
                         stage |-> eng.stage,
                         status |-> IF t.robot \in Compat[eng.dep]
                                    THEN "pending" ELSE "skipped",
                         from_version |-> t.version,
                         to_version |-> Release[eng.dep]])
          /\ eng' = [eng EXCEPT !.todo = @ \ {t}]
    /\ UNCHANGED <<robots, deps>>

(* A mutant of PromotePending: tasks that are not pending are not skipped. *)
PromoteEvery ==
    /\ eng.pc = "create" /\ eng.todo = {}
    /\ eng' = [eng EXCEPT !.pc = "promote",
                 !.rows = {k \in StageTasks(eng.dep, eng.stage) :
                              tasks[k].is_rollback = eng.only_rollback}]
    /\ UNCHANGED storeVars

(* deployment_tasks of the stage: the pending tasks of the right kind.     *)
PromotePending ==
    /\ eng.pc = "create" /\ eng.todo = {}
    /\ eng' = [eng EXCEPT !.pc = "promote",
                 !.rows = {k \in WithStatus(StageTasks(eng.dep, eng.stage), {"pending"}) :
                              tasks[k].is_rollback = eng.only_rollback}]
    /\ UNCHANGED storeVars

(* The task the loop is at, in ORDER BY robot_id.                          *)
Current(k) == k \in eng.rows /\ \A j \in eng.rows : tasks[k].robot <= tasks[j].robot

(* get_robot and check_gates for that task.                                *)
CheckGates ==
    /\ eng.pc = "promote"
    /\ \E k \in eng.rows :
          /\ Current(k)
          /\ eng' = [eng EXCEPT !.pc = "assign",
                        !.gate = GatesPass(eng.dep, tasks[k].robot)]
    /\ UNCHANGED storeVars

(* set_task_status with the verdict: a gated task is rewritten too.        *)
Assign ==
    /\ eng.pc = "assign"
    /\ \E k \in eng.rows :
          /\ Current(k)
          /\ SetTaskStatus(k, IF eng.gate THEN "assigned" ELSE "pending")
          /\ eng' = [eng EXCEPT !.pc = "promote", !.gate = FALSE, !.rows = @ \ {k}]
    /\ UNCHANGED <<robots, deps>>

-----------------------------------------------------------------------------
(* The rest of _process_running.                                           *)

Failures(d) == WithStatus(Forward(TasksOf(d)), {"failed"})

(* A mutant of CountFailures: rolls back at the threshold, not past it.    *)
CountFailuresAtThreshold ==
    /\ eng.pc = "promote" /\ eng.rows = {} /\ ~eng.only_rollback
    /\ LET s == Strategy[eng.dep] IN
       eng' = [eng EXCEPT !.pc =
          IF Cardinality(Failures(eng.dep)) >= s.failure_threshold
          THEN IF s.auto_rollback THEN "set_rolling_back" ELSE "halt"
          ELSE "stage"]
    /\ UNCHANGED storeVars

CountFailures ==
    /\ eng.pc = "promote" /\ eng.rows = {} /\ ~eng.only_rollback
    /\ LET s == Strategy[eng.dep] IN
       eng' = [eng EXCEPT !.pc =
          IF Cardinality(Failures(eng.dep)) > s.failure_threshold
          THEN IF s.auto_rollback THEN "set_rolling_back" ELSE "halt"
          ELSE "stage"]
    /\ UNCHANGED storeVars

SetRollingBack ==
    /\ eng.pc = "set_rolling_back"
    /\ SetDepStatus(eng.dep, "rolling_back")
    /\ eng' = [eng EXCEPT !.pc = "collect"]
    /\ UNCHANGED <<robots, tasks, newer>>

(* A mutant of CollectRollbacks: existing rollback tasks are not looked at. *)
CollectAgain ==
    /\ eng.pc = "collect"
    /\ LET bad == {r \in Fleet : robots[r].version = Release[eng.dep]}
       IN  eng' = [eng EXCEPT !.pc = IF bad = {} THEN "halt" ELSE "rollback",
                     !.todo = {[robot |-> r, version |-> robots[r].version] : r \in bad}]
    /\ UNCHANGED storeVars

(* fleet_robots: the robots whose row shows the release, less those that   *)
(* have a rollback task; with none of them the deployment is just halted.  *)
CollectRollbacks ==
    /\ eng.pc = "collect"
    /\ LET bad == {r \in Fleet : /\ robots[r].version = Release[eng.dep]
                                 /\ Rollbacks(RobotTasks(eng.dep, r)) = {}}
       IN  eng' = [eng EXCEPT !.pc = IF bad = {} THEN "halt" ELSE "rollback",
                     !.todo = {[robot |-> r, version |-> robots[r].version] : r \in bad}]
    /\ UNCHANGED storeVars

(* A mutant of PreviousVersion: restores what the robot reports now.       *)
PreviousIsCurrent(d, r, prev) == prev = robots[r].version

(* from_version of the newest task of the robot, or "unknown".             *)
PreviousVersion(d, r, prev) ==
    IF RobotTasks(d, r) = {} THEN prev = Unknown
    ELSE \E k \in Newest(RobotTasks(d, r)) : prev = tasks[k].from_version

CreateRollback ==
    /\ eng.pc = "rollback"
    /\ \E t \in eng.todo, prev \in Version :
          /\ \A u \in eng.todo : t.robot <= u.robot
          /\ PreviousVersion(eng.dep, t.robot, prev)
          /\ CreateTask([dep |-> eng.dep, robot |-> t.robot, is_rollback |-> TRUE,
                         stage |-> eng.stage, status |-> "pending",
                         from_version |-> Release[eng.dep], to_version |-> prev])
          /\ IF eng.todo = {t} THEN Return
             ELSE eng' = [eng EXCEPT !.todo = @ \ {t}]
    /\ UNCHANGED <<robots, deps>>

Halt ==
    /\ eng.pc = "halt"
    /\ SetDepStatus(eng.dep, "halted")
    /\ Return
    /\ UNCHANGED <<robots, tasks, newer>>

(* Mutants of StageRead: tasks under way do not hold the stage back; an    *)
(* empty stage is never complete.                                          *)
StageReadUnderWay ==
    /\ eng.pc = "stage"
    /\ IF WithStatus(Forward(StageTasks(eng.dep, eng.stage)), {"pending", "assigned"}) = {}
       THEN eng' = [eng EXCEPT !.pc = IF eng.stage < MaxStage(eng.dep)
                                      THEN "advance" ELSE "complete"]
       ELSE Return
    /\ UNCHANGED storeVars

StageReadNonEmpty ==
    /\ eng.pc = "stage"
    /\ LET stage == Forward(StageTasks(eng.dep, eng.stage)) IN
       IF stage # {} /\ stage = WithStatus(stage, Terminal)
       THEN eng' = [eng EXCEPT !.pc = IF eng.stage < MaxStage(eng.dep)
                                      THEN "advance" ELSE "complete"]
       ELSE Return
    /\ UNCHANGED storeVars

(* The second read of the stage's tasks (engine.py:167); an empty stage is *)
(* complete.                                                               *)
StageRead ==
    /\ eng.pc = "stage"
    /\ IF Forward(StageTasks(eng.dep, eng.stage)) =
          WithStatus(Forward(StageTasks(eng.dep, eng.stage)), Terminal)
       THEN eng' = [eng EXCEPT !.pc = IF eng.stage < MaxStage(eng.dep)
                                      THEN "advance" ELSE "complete"]
       ELSE Return
    /\ UNCHANGED storeVars

Advance ==
    /\ eng.pc = "advance"
    /\ SetDepStage(eng.dep, eng.stage + 1)
    /\ Return
    /\ UNCHANGED <<robots, tasks, newer>>

Complete ==
    /\ eng.pc = "complete"
    /\ SetDepStatus(eng.dep, "completed")
    /\ Return
    /\ UNCHANGED <<robots, tasks, newer>>

-----------------------------------------------------------------------------
(* The rest of _process_rolling_back.                                      *)

(* A mutant of NormaliseRead: any rollback task is taken for done.         *)
NormaliseReadEvery ==
    /\ eng.pc = "promote" /\ eng.rows = {} /\ eng.only_rollback
    /\ eng' = [eng EXCEPT !.pc = "normalise", !.rows = Rollbacks(TasksOf(eng.dep))]
    /\ UNCHANGED storeVars

NormaliseRead ==
    /\ eng.pc = "promote" /\ eng.rows = {} /\ eng.only_rollback
    /\ eng' = [eng EXCEPT !.pc = "normalise",
                 !.rows = WithStatus(Rollbacks(TasksOf(eng.dep)), {"succeeded"})]
    /\ UNCHANGED storeVars

Normalise ==
    /\ eng.pc = "normalise"
    /\ \E k \in eng.rows :
          /\ Current(k)
          /\ SetTaskStatus(k, "rolled_back")
          /\ eng' = [eng EXCEPT !.rows = @ \ {k}]
    /\ UNCHANGED <<robots, deps>>

(* Mutants of FinishRead: a rollback that failed does not count as over;   *)
(* it is enough that rollback tasks exist.                                 *)
FinishReadOnlyRolledBack ==
    /\ eng.pc = "normalise" /\ eng.rows = {}
    /\ LET rbs == Rollbacks(TasksOf(eng.dep)) IN
       IF rbs # {} /\ rbs = WithStatus(rbs, {"rolled_back"})
       THEN eng' = [eng EXCEPT !.pc = "halt"]
       ELSE Return
    /\ UNCHANGED storeVars

FinishReadUnchecked ==
    /\ eng.pc = "normalise" /\ eng.rows = {}
    /\ IF Rollbacks(TasksOf(eng.dep)) # {} THEN eng' = [eng EXCEPT !.pc = "halt"] ELSE Return
    /\ UNCHANGED storeVars

FinishRead ==
    /\ eng.pc = "normalise" /\ eng.rows = {}
    /\ LET rbs == Rollbacks(TasksOf(eng.dep)) IN
       IF rbs # {} /\ rbs = WithStatus(rbs, {"rolled_back", "failed", "skipped"})
       THEN eng' = [eng EXCEPT !.pc = "halt"]
       ELSE Return
    /\ UNCHANGED storeVars

EngineNext ==
    \/ Tick \/ Load
    \/ Ensure \/ EnsureTask \/ PromotePending \/ CheckGates \/ Assign
    \/ CountFailures \/ SetRollingBack \/ CollectRollbacks \/ CreateRollback
    \/ Halt \/ StageRead \/ Advance \/ Complete
    \/ NormaliseRead \/ Normalise \/ FinishRead
=============================================================================
