------------------------- MODULE RolloutProperties -------------------------
(* What the rollout system must never do, and what it must end by doing.   *)
EXTENDS Rollout

Wave(d, s) == Prefix(Robot, Target(d, s, Cardinality(Robot)))
Rows       == DOMAIN tasks

(* A robot has at most one forward and one rollback task in a deployment:  *)
(* _ensure_stage_tasks and _halt_and_rollback look before they create, and *)
(* a tick that died half way, or a deployment halted twice, starts over.   *)
UniqueTask ==
    \A j, k \in Rows :
       (/\ tasks[j].dep = tasks[k].dep /\ tasks[j].robot = tasks[k].robot
        /\ tasks[j].is_rollback = tasks[k].is_rollback) => j = k

(* The release is offered only to robots of the waves opened so far: the   *)
(* engine's stage, read at the start of the tick, is never ahead.          *)
BlastRadius ==
    \A k \in Forward(Rows) :
       /\ tasks[k].stage <= deps[tasks[k].dep].stage
       /\ tasks[k].robot \in Wave(tasks[k].dep, tasks[k].stage)

(* A later stage, or the end of the deployment, means that every earlier   *)
(* forward task is terminal, and stays so.                                 *)
StageSettled ==
    \A k \in Forward(Rows) :
       LET d == tasks[k].dep IN
       (tasks[k].stage < deps[d].stage \/ deps[d].status = "completed")
          => tasks[k].status \in Terminal

(* A rollback task takes its robot from the release back to the version    *)
(* its forward task recorded, whatever the robots table says by then.      *)
RollbackRestores ==
    \A k \in Rollbacks(Rows) :
       LET t == tasks[k]  fwd == Forward(RobotTasks(t.dep, t.robot)) IN
       /\ t.from_version = Release[t.dep]
       /\ fwd = {} => t.to_version = Unknown
       /\ \A j \in fwd : t.to_version = tasks[j].from_version

(* A deployment stops, and rolls back, only with more failures on record   *)
(* than its threshold.                                                     *)
StopsOnlyAfterFailures ==
    \A d \in Dep :
       (deps[d].status \in {"rolling_back", "halted"} \/ Rollbacks(TasksOf(d)) # {})
          => Cardinality(Failures(d)) > Strategy[d].failure_threshold

(* While an agent is in its update pipeline, the row of its task is its    *)
(* own and is neither waiting nor closed.                                  *)
AgentOwnsTask ==
    \A r \in Robot : agent[r].pc \in Updating =>
       /\ agent[r].task \in Rows
       /\ tasks[agent[r].task].robot = r
       /\ tasks[agent[r].task].status \notin Terminal \cup {"pending"}

(* A robot is never updated in the middle of a mission (README.md).        *)
NeverUpdatesMidMission ==
    \A r \in Robot : agent[r].pc \in Updating => ~agent[r].state.on_mission

(* Once the requests of an agent are served, the robots table shows the    *)
(* version the agent runs: _halt_and_rollback selects by that column.      *)
VersionOnRecord ==
    \A r \in Robot :
       robots[r].known /\ CallsOf(r) = {} => robots[r].version = agent[r].version

(* A deployment that halted with auto_rollback has a rollback task for     *)
(* every robot that took the release (README.md, step 5).                  *)
TakersGetRollback ==
    \A d \in Dep : (deps[d].status = "halted" /\ Strategy[d].auto_rollback) =>
       \A r \in Robot :
          agent[r].installed = Release[d] => Rollbacks(RobotTasks(d, r)) # {}

(* A halted deployment has no rollback task still to be done.              *)
HaltedRollbacksDone ==
    \A d \in Dep : deps[d].status = "halted" =>
       Rollbacks(TasksOf(d)) \subseteq WithStatus(Rows, Terminal)

(* Of the robots that are there from the start, the canary stage offers    *)
(* the release to canary_count at most: a robot that joins ahead of them   *)
(* in ORDER BY id becomes one more canary (docs/API.md:78 knows none), but *)
(* it never lets another one in.                                           *)
CanaryCount ==
    \A d \in Dep :
       Cardinality({k \in Forward(StageTasks(d, 0)) : tasks[k].robot \notin Joiners})
          <= Strategy[d].canary_count

(* A rollback task closed as rolled_back means the robot really runs the   *)
(* version it was to go back to.                                           *)
RolledBackIsRestored ==
    \A k \in Rollbacks(Rows) :
       tasks[k].status = "rolled_back"
          => agent[tasks[k].robot].installed = tasks[k].to_version

(* Stages 0, 1, ...: the order the lifecycle of docs/API.md:91-95 gives.   *)
Rank(status) ==
    CASE status = "pending" -> 0 [] status = "assigned" -> 1
      [] status = "downloading" -> 2 [] status = "applying" -> 3
      [] status = "verifying" -> 4 [] OTHER -> 5

StatusStep(k) ==
    LET old == tasks[k].status  new == tasks'[k].status IN
    \/ new = old
    \/ Rank(old) < Rank(new)
    \/ tasks[k].is_rollback /\ old = "succeeded" /\ new = "rolled_back"

(* The status of a task only moves forward through its lifecycle, and a    *)
(* terminal one is final, but that the engine files a rollback that        *)
(* succeeded as rolled_back.                                               *)
StatusMonotone == [][\A k \in Rows : StatusStep(k)]_vars

(* Every deployment that starts is completed or halted.                    *)
Settles == \A d \in Dep :
    deps[d].status = "running" ~> deps[d].status \in {"completed", "halted"}

(* A rollback that has begun ends.                                         *)
RollbackEnds == \A d \in Dep :
    deps[d].status = "rolling_back" ~> deps[d].status = "halted"
=============================================================================
