------------------------------- MODULE Store -------------------------------
(***************************************************************************)
(* The SQLite tables of the control plane (control-plane/store.py) and the *)
(* queries and writes the other modules make on them.  Every function of   *)
(* store.py takes the process-wide LOCK and commits one transaction, so    *)
(* one use of a write operator below is one atomic step, and whatever a    *)
(* caller keeps from a query may be stale by its next step.                *)
(***************************************************************************)
EXTENDS Integers, Sequences, FiniteSets

CONSTANTS
    Robot,      \* robot ids of the one fleet modelled: positive integers, in ORDER BY id
    Joiners,    \* the robots that are not registered yet when the system starts
    Dep,        \* deployment ids: positive integers, in order of creation
    Version,    \* software versions
    Unknown,    \* the version "unknown", which engine.py:133 falls back to
    Release,    \* Release[d]: the version deployment d rolls out
    Compat,     \* Compat[d]: the robots whose distro and hardware the release accepts
    Strategy,   \* Strategy[d]: the strategy record; fractions are percentages
    Gates,      \* Gates[d]: the gate thresholds of the deployment
    MaxBattery, \* battery charge is a level of 0..MaxBattery
    Args        \* Args[r]: the command line of robot r's agent

(* phys/robot state: what a heartbeat reports and the robots table stores. *)
RobotState == [on_mission: BOOLEAN, docked: BOOLEAN, charging: BOOLEAN,
               battery: 0..MaxBattery]

StrategyType == [canary_count: Nat, stage_fractions: Seq(Nat),
                 failure_threshold: Nat, auto_rollback: BOOLEAN]
GatesType    == [min_battery: Nat, require_docked: BOOLEAN]
ArgsType     == [version: Version, state: RobotState, mission_ticks: Nat]

ASSUME StoreAssumption ==
    /\ Robot \subseteq Nat \ {0} /\ IsFiniteSet(Robot) /\ Joiners \subseteq Robot
    /\ Dep \subseteq Nat \ {0}
    /\ Unknown \in Version
    /\ Release \in [Dep -> Version]
    /\ Compat \in [Dep -> SUBSET Robot]
    /\ Strategy \in [Dep -> StrategyType]
    /\ Gates \in [Dep -> GatesType]
    /\ MaxBattery \in Nat
    /\ Args \in [Robot -> ArgsType]

VARIABLES
    robots,     \* robots[r]: the row of robot r (known = the row exists)
    deps,       \* deps[d]: status and current_stage of deployment d
    tasks,      \* the tasks table; a task id is an index
    newer       \* <<k, j>> \in newer: same robot, updated_at of k is after that of j

storeVars == <<robots, deps, tasks, newer>>

DepStatus    == {"none", "running", "paused", "rolling_back", "halted", "completed"}
Terminal     == {"succeeded", "failed", "rolled_back", "skipped"}
AgentStatus  == {"downloading", "applying", "verifying", "succeeded", "failed"}
TaskStatus   == {"pending", "assigned"} \cup AgentStatus \cup Terminal

RobotRow == [known: BOOLEAN, version: Version, state: RobotState, fresh: BOOLEAN]
DepRow   == [status: DepStatus, stage: Nat]
TaskRow  == [dep: Dep, robot: Robot, is_rollback: BOOLEAN, stage: Nat,
             status: TaskStatus, from_version: Version, to_version: Version]

-----------------------------------------------------------------------------
(* Queries. *)

Fleet == {r \in Robot : robots[r].known}

(* robots[:n] of the fleet ordered by id. *)
Prefix(fleet, n) == {r \in fleet : Cardinality({q \in fleet : q <= r}) <= n}

TasksOf(d)       == {k \in DOMAIN tasks : tasks[k].dep = d}
StageTasks(d, s) == {k \in TasksOf(d) : tasks[k].stage = s}
RobotTasks(d, r) == {k \in TasksOf(d) : tasks[k].robot = r}
Forward(ks)      == {k \in ks : ~tasks[k].is_rollback}
Rollbacks(ks)    == {k \in ks : tasks[k].is_rollback}
WithStatus(ks, st) == {k \in ks : tasks[k].status \in st}

(* The members of ks with the greatest updated_at: ORDER BY ... DESC LIMIT 1. *)
Newest(ks) == {k \in ks : \A j \in ks \ {k} : <<k, j>> \in newer}

(* What GET /task offers robot r: at most one id. *)
ActiveTask(r) ==
    Newest({k \in DOMAIN tasks : /\ tasks[k].robot = r
                                 /\ deps[tasks[k].dep].status \in {"running", "rolling_back"}
                                 /\ tasks[k].status \notin Terminal})

-----------------------------------------------------------------------------
(* Writes. *)

SameRobot(k, r) == {j \in DOMAIN tasks : tasks[j].robot = r} \ {k}

CreateTask(row) ==
    /\ tasks' = Append(tasks, row)
    /\ newer' = newer \cup ({Len(tasks) + 1} \X SameRobot(Len(tasks) + 1, row.robot))

SetTaskStatus(k, status) ==
    /\ tasks' = [tasks EXCEPT ![k].status = status]
    /\ newer' = {p \in newer : p[2] # k} \cup ({k} \X SameRobot(k, tasks[k].robot))

SetDepStatus(d, status) == deps' = [deps EXCEPT ![d].status = status]
SetDepStage(d, stage)   == deps' = [deps EXCEPT ![d].stage = stage]

SetRobotVersion(r, v) == robots' = [robots EXCEPT ![r].version = v]

(* A mutant of NewRobotRow: a new robot is taken to be on its dock.        *)
NewRobotDocked(v) ==
    [known |-> TRUE, version |-> v, fresh |-> TRUE,
     state |-> [on_mission |-> FALSE, docked |-> TRUE, charging |-> FALSE,
                battery |-> MaxBattery]]

(* The row upsert_robot inserts for a robot it does not know: full battery,*)
(* no mission, heard of just now.                                          *)
NewRobotRow(v) ==
    [known |-> TRUE, version |-> v, fresh |-> TRUE,
     state |-> [on_mission |-> FALSE, docked |-> FALSE, charging |-> FALSE,
                battery |-> MaxBattery]]

(* The robots but the Joiners are registered, and have sent heartbeats.    *)
StoreInit ==
    /\ robots = [r \in Robot |->
          [known |-> r \notin Joiners, version |-> Args[r].version,
           state |-> Args[r].state, fresh |-> r \notin Joiners]]
    /\ deps  = [d \in Dep |-> [status |-> "none", stage |-> 0]]
    /\ tasks = << >>
    /\ newer = {}

StoreTypeOK ==
    /\ robots \in [Robot -> RobotRow]
    /\ deps \in [Dep -> DepRow]
    /\ tasks \in Seq(TaskRow)
    /\ newer \subseteq Nat \X Nat
=============================================================================
