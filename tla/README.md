# Sanchara: specification, model checking and proofs

This directory models Sanchara, over-the-air updates for fleets of ROS 2
robots: the engine that takes a release through a fleet in stages, the database
both sides share, the HTTP handlers and the agents on the robots; the tokens
robots identify themselves with; the way of a release tarball from the
operator's disk to a robot's; the migrations of the database; and the health
check that decides whether an update is kept. TLC checks the models on small
instances; TLAPS proves the main safety properties for every value of the
constants.

## 1. The system

| part | source | state | operations |
|---|---|---|---|
| rollout engine | `control-plane/engine.py`, thread in `app.py:56-67` | locals of the current tick | `tick`, `_process_running`, `_process_rolling_back` and what they call |
| store | `control-plane/store.py` | tables `robots`, `deployments`, `tasks`, `releases`, `events`, `schema_migrations` | one locked transaction per function |
| migrations | `control-plane/store.py:30-143` | schema, recorded versions | `init_db` at each start |
| robot API | `control-plane/app.py:129-176`, `267-278` | requests being served | heartbeat, task poll, task status, artifact download |
| operator API | `control-plane/app.py:179-263` | none | register robot, create release, create deployment, pause, resume |
| authentication | `control-plane/auth.py` | token hashes | bootstrap, per-request checks |
| artifact store | `control-plane/artifacts.py` | tarballs and their checksums | ingest |
| agent | `agent/agent.py` | loop position, reported version, battery, dock, mission, token | heartbeat, poll, the pipeline of `run_update` |
| secure update | `agent/secure_update.py` | artifact directory | download, verify, put in place |
| ROS backends | `agent/ros_sim.py`, `agent/ros_backend.py` | installed version; the node graph | preflight, apply, health check |
| not behaviour | configuration, logging, readiness, dashboard, audit log, demo, tests, packaging | | |

How they interact. The engine thread and the request handlers (a thread pool)
share the database only. `LOCK` makes each *function* of `store.py` atomic,
and nothing more: a tick makes a dozen store calls, a handler two or three,
and anything can happen between two of them. Agents talk to the control plane
by requests that can be lost, time out after 10 s although they are still
handled, or overtake each other. An agent is sequential and waits for each
answer. The operator may write a deployment's status, register a robot or
rebuild a tarball at any moment. Each process of the control plane runs
`init_db` when it starts.

What is hard about it: decisions on stale snapshots (engine), two reads of the
same table in one decision (engine), a report that writes two tables in two
transactions (handlers), assignments that outlive the state that justified
them (agents), restarts that forget (agents, server), progress that depends on
one report arriving; a token that is told once; a tarball that is hashed,
copied and recorded in three steps while its source may change; statements that
commit one by one in what looks like a transaction; a graph that is read piece
by piece while it changes.

What makes it correct, by part:

* engine: stages open in order and only when the earlier ones are settled; the
  release stays within the opened stages; it stops only after enough failures;
  it creates no task twice; a rollback returns each robot to where it came from;
  every deployment ends.
* handlers: statuses move forward; the version column follows the robots.
* agents: one update at a time, on a task that is theirs, never on a mission.
* authentication: a running robot holds the token on record, or will, unless
  something happened to it.
* artifacts: what is served is whole; what lands is what the operator signed;
  a download of a good tarball ends with it in place.
* migrations: what is recorded was applied; who gets through finds it all;
  a start that nothing disturbs gets through.
* health check: what passes matches the manifest, what matches passes.

## 2. Modules

| module | models | main correspondence |
|---|---|---|
| `Store` | tables and queries | one operator per function of `store.py`; `newer` abstracts `updated_at` to the order the two `ORDER BY updated_at DESC LIMIT 1` queries look at |
| `Engine` | the tick | `eng.pc` is the store call that comes next, the other fields of `eng` are the locals (`dep` snapshot, task lists, gate verdict); one action per store call |
| `RobotApi` | handlers | a member of `calls` is a request in flight or in a handler; `step` is the handler's next store call |
| `Agent` | agents | `pc` follows `run` and `run_update`; each report is a request the agent waits for |
| `Rollout` | the five together | the composition, operator, time, faults, fairness |
| `RolloutProperties` | their properties | |
| `Campaign` | what a deployment promises | abstract: offers, settles, stages, stop |
| `RolloutRefinement` | `Rollout` implements `Campaign` | refinement mapping by INSTANCE |
| `Bootstrap` | registration, first heartbeat, `require_robot` | a member of `requests` is a heartbeat or a registration, `step` the handler's next store call; `agents[r].token` is `self.a.token` |
| `Artifacts` | ingest and download, on top of `Bootstrap` | `ingest[k].step` is the position in `ingest_artifact`, `down[r].step` that in `download_and_verify` and its handler; `shelf` is the copy and the row, `disk` the robot's artifact directory |
| `Migrations` | `init_db` | `proc[p].pc` is the statement that comes next, `pending` the uncommitted row; `lone` (history) holds the process that started last, if it met no other |
| `RosHealth` | both ROS backends | `run.pc` is the position in `apply_update` and `health_check`, `graph` the live nodes, states and rates |
| `MCRollout`, `MCMigrations`, `MCRosHealth` | instances for TLC | values of the constants; `Artifacts` needs none |
| `RolloutProofs` | proofs: types, rows, waves | extends `RolloutProperties`; section 5 |
| `RolloutStatusProofs` | proofs: statuses | extends `RolloutProofs` |
| `RolloutSettleProofs` | proofs: stages and stops | extends `RolloutStatusProofs` |
| `RolloutPromiseProofs` | proofs: phases and the refinement of `Campaign` | extends `RolloutSettleProofs` and `RolloutRefinement` |
| `RolloutAgentProofs` | proofs: what agents run and report | extends `RolloutStatusProofs` |
| `ArtifactsProofs`, `MigrationsProofs`, `RosHealthProofs` | proofs of the other components | each extends its component |

Steps of the tick. `Tick` (list_deployments), `Load` (get_deployment and the
branch on its status), `Ensure`/`EnsureTask` (targets, then one task each),
`PromotePending`/`CheckGates`/`Assign` (read the pending tasks, then for each
read the robot and write the task), `CountFailures`, `SetRollingBack`,
`CollectRollbacks`/`CreateRollback`, `Halt`, `StageRead`, `Advance`,
`Complete`, and for rollbacks `NormaliseRead`/`Normalise`/`FinishRead`.

Abstractions of the rollout, and why they lose nothing the properties look at:

* Two reads that no other thread can tell apart are one step: `robot_task` in
  `_ensure_stage_tasks` (only the engine creates tasks), the compatibility and
  `existing` checks of `_halt_and_rollback` together with its fleet read (same
  reason), `get_robot` with `check_gates`, `get_task` and the write in `task_status`
  (rows are never deleted).
* Battery is a level `0..MaxBattery`. Off the charger it may drop at each
  heartbeat, on the charger it rises.
* Distro and hardware are constants of a robot, so compatibility is the set
  `Compat[d]`.
* Stage fractions are whole percentages; `CeilOf` is the exact ceiling. The
  float rounding of `math.ceil(fracs[idx] * fleet_size)` is not modelled (in
  floats `0.07 * 100` is a little above 7, and its ceiling is 8).
* Agents always send connectivity "ok" (`agent.py:76`), so the connectivity
  gate cannot fail here.
* `HeartbeatStale` lets the 30 s pass whenever the agent is not about to
  send a heartbeat.
* `apply_update` and the following "verifying" report are one step, as are a
  failed step and its report: the agent does nothing else in between. Repeated
  "downloading" reports (progress) are one report.
* Equal `updated_at` values are taken not to occur.
* `StoreInit`: robots that are in the fleet from the start have sent a
  heartbeat, so their rows agree with their agents. Robots of `Joiners` are
  unknown; each is registered during the rollout, by the operator
  (`RegisterRobot`, any version) or by its first heartbeat (`Register`), and has the
  defaults of `upsert_robot` until a heartbeat's state is stored. That a robot already
  known is registered again is part of `Bootstrap` only.
* `apply_update` of a backend without hooks ("no_hooks": `agent.py:37` builds
  the rclpy backend so) records the version and installs nothing.
* Robots in the simulation end missions but never begin one; only a restart
  (the command line says on a mission) or a robot that joins is on a mission later.
* A poll that is lost is a poll that was offered nothing, plus a wait.
* The rollout models know no tokens, and `Artifacts` no tasks: of an agent it
  keeps whether it is in its loop, waits for a heartbeat's answer, polls, or is
  busy with a download. `Agent` takes from the download that it succeeds or
  fails, which is what `Artifacts` shows in detail.

Abstractions of the others:

* `Bootstrap`: a token is the number of its issue, and is its own hash. Of the
  columns a heartbeat writes, only the version is kept (the others are in
  `RobotApi`). A registration names no version, so it writes `RobotIn`'s
  default. A request that nobody waits for any more gets a number of its own
  (`gone`), because two such requests can be otherwise alike.
* `Artifacts`: a file is the sequence of its two blocks, a block the build it
  comes from: enough for "nothing", "not finished", "whole" and "torn".
  A checksum or signature is the file it is of. The operator signs the build
  that lies at the path, or sends no signature. Ids of releases are new for each
  release, so nothing in the store is overwritten.
  A body that is cut short is taken not to raise in the client, which is the
  worse case; the verification finds it.
* `Migrations`: two tables stand for all of migration 1. Each statement is
  committed when it is run. Waiting for the write lock is a disabled action;
  the 5 s after which SQLite gives up, and a lock kept after an IntegrityError,
  are not modelled.
* `RosHealth`: rates are exact, in hundredths of Hz, the sim's deviation whole
  percents; nodes and topics that play the same part in both manifests are
  represented by one of them. The graph changes between nodes, topics and
  lifecycle states, and between two topics. Arrival times without jitter.

## 3. Runs

Every run ends within a minute or so with two workers. Version "unknown"
is `engine.py:133`'s fallback.

| run | instance | shows |
|---|---|---|
| `rollout` | 2 robots, the first on a mission for two heartbeats, draining batteries, canary then all, one fault of: lost request, control plane restart, error in a tick, exception in the pipeline; 431k states | `TypeOK`, `StopsOnlyAfterFailures`, `NeverUpdatesMidMission`, `StageSettled`, `AgentOwnsTask`, `RolledBackIsRestored`, `StatusMonotone` |
| `operator` | 2 robots, pause and resume from any status; 602k | `UniqueTask`, `BlastRadius` |
| `restarts` | 1 robot, two of: agent crash, client timeout; 1.5M | `RollbackRestores`, `RolledBackIsRestored` |
| `progress` | 2 robots, stages 1, 50%, 100% (the second stage is empty), fair; 29k | `KeepsPromise`, `Settles`, `RollbackEnds` |
| `two` | 2 deployments of 2 versions for one robot; 194k | `VersionOnRecord`, `HaltedRollbacksDone` |
| `joins` | 3 robots; the one that sorts first registers during the rollout, by the operator or by its first heartbeat, on a mission; the second is incompatible; every pipeline step may fail, apply may have no hooks; auto-rollback off; 2.7M | `NeverUpdatesMidMission`, `StopsOnlyAfterFailures`, `CanaryCount` |
| `services` | 1 robot, known without a token or not at all, 1 release, 2 builds, 1 registration, 1 fault of: lost answer or timeout, agent killed, control plane killed, ingest error, body cut, transport error; fair; 322k | `ArtifactsTypeOK`, `LockedOutOnlyByFault`, `LandedVerified`, `ServedWhole`, `PartsHaveOwners`, `Bootstraps`, `VersionRecovers`, `Delivered` |
| `migrations` | 3 processes, any of 4 databases of the field, 2 stops; 20k | `TypeOK`, `VersionsFollowSchema`, `ReadySchema`, `LoneStartSucceeds` |
| `health` | both backends, both manifests and an unknown target, 2 changes of the graph, topics sampled for 3 s; 49k | `TypeOK`, `HealthySound`, `PassedRunsTarget`, `HealthyGraphPasses`; and that the manifests satisfy the hypotheses of the theorems about them |

Bounds. Two robots give a canary that can fail and one that is not reached
yet, one that is being updated while another is rolled back, and every race of
a handler with the engine; the gates and the store treat robots
independently (the properties proved in section 5 hold for any number). In
`joins` there are three: one that joins and sorts first, so that it takes the
canary's place, and two of which the second must still not be let in. One fault at any point of
the behaviour covers every single-failure case of the code; two are needed
only for a late report of an agent that crashed. Stages and tasks are bounded
by the code itself; `MaxFaults` is the only counter bound of the rollout.

One robot and one release suffice in `services`, because neither tokens nor
tarballs of different robots and releases touch each other, but for
`require_any_robot`, which admits the token of any; the proofs are for any
number. `MaxBuild = 2` lets the path change between any two steps of an ingest;
`MaxRegister = 1` puts a registration before, during or after every step of a
bootstrap. In `migrations` three processes let two fail on one another while
a third is stopped, and with two stops a migration is torn, or not, before a
start that is alone. In `health` two changes are one that breaks the graph and
one that mends it, at any two points; 3 s is the sampling time of the
repository's own tests for slow topics (`test_ros_backend.py:277`).

Deadlock is checked in every run but `migrations` and `concurrent_start`,
where the system comes to rest when every process is up.

Fairness. `Rollout` (`FairSpec`): the engine thread is a daemon that ticks for
ever and catches every exception, handlers run to their end, and an agent's loop
never exits: weak fairness of `EngineMoves`, and of `HandlerMoves` and
`AgentMoves` of each robot. `Artifacts`: weak fairness of the handlers of each
robot, by kind of request and by whether somebody still waits for the answer
(each runs in a thread of its own), of the agent's loop and of its download;
nothing is assumed of the operator, who registers robots, starts agents and
rebuilds tarballs, or not. So `Bootstraps` speaks of agents that were started,
and `VersionRecovers` of agents whose token is accepted. Time and
faults are under no obligation either, and liveness is stated without them, or up to
the robots a fault has met (`hurt`). `Migrations` assumes no fairness: nothing
starts a control plane again that failed (its service in `docker-compose.yml`
has no restart policy).

### Where the code and its documents differ

| run | property | what happens |
|---|---|---|
| `rollback_missed` | `TakersGetRollback` | the robot applied the release, but the failure or the version arrived at the wrong moment: it gets no rollback task (README.md:54-55) |
| `concurrent_start` | `StartSucceeds` | of two processes that start at once on a database below version 2, the later `ALTER TABLE` raises: `init_db` fails (store.py:122-124 calls it safe). Nothing starts it again; when somebody does, and it is alone, it gets through (`LoneStartSucceeds`) |
| `slow_topic` | `HealthyGraphPasses` | with the default sampling time of 1 s the 1 Hz `/battery_state` of both manifests counts as 0 Hz: a graph that is as it should be fails its check (ros_backend.py:105) |

Others were seen in the models and have no run:

* engine: a failure reported between the two reads of a tick completes the
  deployment over its threshold (`engine.py:157-182`, README.md:54); forward
  tasks assigned before a halt are still run (`store.py:397`, README.md:57-58);
  the tick overwrites a pause with completed or rolling_back
  (`engine.py:182`, docs/API.md:99-100); an error between `rolling_back` and the
  first rollback task leaves the deployment rolling back for ever
  (`engine.py:124`); a stage advances with failed tasks when the
  threshold is above 0, against README.md:59-60; a robot incompatible with the
  release it runs gets a rollback task that the gates never pass
  (`engine.py:53`); a robot that joins with a smaller id than the
  canaries is offered the release in stage 0 besides them, one robot more than
  `canary_count` (`engine.py:98`, docs/API.md:77-78; `CanaryCount` says that it
  lets no other robot in); the gates are checked on a row that may be replaced
  before the assignment (`engine.py:84`). The other way round, the comment in
  tests/test_e2e.py:375-381, that an empty stage is never left, is out of date:
  `engine.py:169-173` leaves it, as docs/ARCHITECTURE.md:42 says and `Settles` shows.
* handlers and store: with `require_docked` false, a robot on a mission that
  the operator has registered and that is silent so far, or that is between the two
  writes of its first heartbeat, has the default state of `upsert_robot` and
  can be assigned a task (`store.py:182`, README.md:43-44); with the default gates
  its row says that it is off its dock, and `NeverUpdatesMidMission` holds; pause and resume during a
  rollback end in `halted` with rollback tasks open (`app.py:261`); a gated task
  hides an assigned one of another deployment (`store.py:399`); a report handled
  after its agent timed out reopens a closed task (`app.py:168`).
* agents: a lost final report keeps a deployment open for ever
  (`agent.py:95`); a robot whose four reports of one update are all lost keeps
  an `assigned` row, and may run it again after its rollback was filed as
  rolled_back (`agent.py:188`; two robots, all at once, four lost requests); an
  update that fails after its packages were installed is not rolled back
  (`ros_backend.py:240-250`); a backend without hooks records a version that it
  has not installed (`agent.py:37`, `ros_backend.py:228-250`), so a rollback of it
  restores nothing, and only the health check can find out (`PassedRunsTarget`); an agent restarted on a mission runs a task
  assigned before (`agent.py:188`).
* tokens: a robot whose answer with the token was lost, or that bootstrapped and
  whose agent is then started again without `--token` (as `docker-compose.yml`'s
  `restart: on-failure` does), is refused for ever, until the operator registers it
  and starts it with the new token (`app.py:149`, `agent.py:216-219`); so is one
  that is registered while its agent runs (`app.py:184`). That registration also resets the
  version on record to the default (`app.py:182`); until an accepted heartbeat
  mends it, a rollback selects by the wrong version and leaves the robot out,
  with the outcome of `rollback_missed`. No run checks this: the rollout models know
  no second registration.
* artifacts: the `.part` file is written to the destination directory before it
  is verified, and stays there when the process is killed
  (`secure_update.py:69`; secure_update.py:12-13 says that nothing unverified
  ever lands there); a path rewritten during an ingest is stored with a
  checksum that does not fit, and every download of that release fails.
* migrations: a stop between two `ALTER TABLE` statements of migration 2, or
  before its version is committed, makes every later start fail
  (`store.py:106`, against store.py:4-6: "inside a transaction").
* health check: version 2.0.0 with `/scan` at half its rate passes for
  1.0.0 if that is the target; two messages with one time stamp divide by zero
  (`ros_backend.py:352`, not modelled).

## 4. The abstract specification

`Campaign` knows the status and stage of one deployment, the robots that have
been offered the release and those that are done with it. It promises that
offers stay within the open stage, that a stage opens (or the deployment
completes) only when every offer is settled and the stage was offered in
full, and that a deployment that stopped never offers the release again.
`KeepsPromise` checks that every step of the engine, the handlers and the
agents maps to a step of `Campaign` or changes nothing of it, on the run
`progress`; `KeepsPromiseHolds` proves it for every fleet and strategy. Pauses
are not part of `Campaign`, because the code loses them.

## 5. Proofs

Checked by TLAPS for every value of the constants under the modules'
assumptions (`StoreAssumption`, `AgentAssumption`, `RolloutAssumption`,
`BootstrapAssumption`, `ArtifactsAssumption`, `MigrationsAssumption`,
`ColumnsAssumption`, `RosHealthAssumption`:
identifiers are positive, records have their types, bounds are numbers, a column is
added by one statement of one migration; nothing bounds the fleet, the deployments, the stages, the releases, the migrations or
the faults).

* `TypeCorrect` (`RolloutProofs`): `Spec => []TypeOK`. `TypeOK` alone is not
  inductive: `TypeInv` adds that a busy engine names a deployment, and that the
  task of an updating agent is a row of the table.
* `UniqueTaskHolds`, `RollbackRestoresHolds` (`RolloutProofs`), under every fault and every
  operator. Inductive invariant `RowInv`: besides both properties, the robots
  still to be given a task (`eng.todo`) have none of that kind yet. Restarts and
  errors only empty `eng.todo`. The proof that `from_version` of the newest task
  is the right one needs exactly this: the newest task is still the forward one.
* `BlastRadiusHolds` (`RolloutProofs`), if nobody joins the fleet. Inductive
  invariant `WaveInv`: the stage in the engine's snapshot is the stage in the
  row, no tasks before creation, and every task, there or still to be created, is
  `Within` the wave of its stage (`RowsInWave`, `TodoInWave`).
* `AgentOwnsTaskHolds`, `StatusMonotoneHolds` (`RolloutStatusProofs`), under
  `InStep`: no agent gives up on a request it sent (`late`) and none restarts
  (`crash`); lost requests, server restarts, failed ticks and raising pipelines
  are all allowed. The assumption is needed: `task_status` overwrites whatever
  it finds, so a report that is overtaken reopens a closed task. Inductive
  invariant `StatusInv`. Its part `Handshake` ties three places together: an
  agent has at most one request out; a report in flight is strictly ahead of
  the row it is about and not ahead of its sender; the row of an updating agent
  is never ahead of the agent. Its part `RowsAsRead` says that the rows a tick
  has read as pending (or as succeeded rollbacks) are still so when the tick
  writes them, because no report can be about such a row.
* `StageSettledHolds`, `StopsOnlyAfterFailuresHolds` (`RolloutSettleProofs`),
  under `InStep`. `Moves` states what one step may do to rows, deployments and
  the engine's position; `ClosedRowsStay` follows from `StatusInv`. Inductive
  invariant `SettleInv`: what the tick has read before it writes `deps` (the
  stage is settled, the failures are too many) is still true when it writes,
  because closed forward tasks stay as they are.
* `CanaryCountHolds` (`RolloutSettleProofs`), without any hypothesis, whoever
  joins, from `WaveInv` and `UniqueTask`. The robots that were there from the start
  (`Founders`) are in the fleet whenever it is counted, so a founder among the
  first n of the fleet is among the first n founders (`TargetsWithin`). The tasks of
  founders in stage 0 map one to one to these, and `PrefixRank` shows that a prefix
  has no more robots than its length.
* `NeverUpdatesMidMissionHolds` (`RolloutAgentProofs`), if no agent crashes, and,
  where robots join, the gates require the dock (`JoinersGated`). Inductive invariant `MissionInv`: a robot on a
  mission is seen as such in every heartbeat on its way, and in its row as such or
  (while it has the defaults of a new row) as off its dock, so none of its tasks is assigned, and a verdict of the gates stays right until it is
  written. The key fact is that missions end and never begin while an agent
  runs. Both assumptions are needed: a robot that joins is taken for idle until its
  state is stored, and an agent that starts again may be on a mission.
* `HaltedRollbacksDoneHolds` (`RolloutPromiseProofs`), under `InStep` and
  `InOrder`: the operator pauses what runs and resumes what is paused, as
  docs/API.md:97-100 has it. Inductive invariant `PhaseInv`: the status that the
  tick branched on is out of date by a pause at most, so a tick that opened
  tasks never meets a deployment that rolls back, rollback tasks exist only of
  deployments that roll back or have, and the read before a halt is still true
  when the halt is written. Without `InOrder` a rollback that is paused and
  resumed goes forward again and halts with its rollback tasks open.
* `KeepsPromiseHolds` (`RolloutPromiseProofs`), the refinement of `Campaign` by
  its first deployment, under `InStep` and `Undisturbed` (no robot joins, no
  deployment is paused; a joining robot enlarges an open stage, and `Campaign` has
  no pauses). A step writes `deps` or `tasks`, never both (`OneTable`).
  `PromiseRows` maps the writes of tasks: a new forward task is an offer
  (`TaskCreated`, from `BlastRadius` and `PhaseInv`), a written status settles
  one or stutters (`TaskWritten`). `PromiseDeps` maps the writes of `deps` by
  `Lifecycle`; for these `OfferedInv` says that a tick past the creation of tasks
  has offered its whole wave, and `WaveIsSettled` that this wave is settled.
* `VersionOnRecordHolds` (`RolloutAgentProofs`), under `SteadyFleet`: nobody joins, ticks may
  break off and updates may raise, but no request is lost or late and nothing
  restarts. Inductive invariant `VersionInv`: a request on its way carries the
  version its sender runs. The proof cuts the steps in three (`StepElsewhere`):
  an agent's, which `StepAsSaid` sums up as saying nothing of a task or reporting on it;
  a handler's (`HandledCalls`, `HandledRobots`); and all others, which leave
  versions and requests alone. One lost report is enough to break the property.
* `RolledBackIsRestoredHolds` (`RolloutAgentProofs`), under `SteadyFleet`, for
  one deployment (`OneDeployment`: another deployment may update the robot again)
  and a backend that installs what it records (`Hooked`).
  The hazard is that the robot's forward task runs after its rollback.
  Inductive invariant `RestoreInv`: a robot runs the version it came with until
  it has applied a task (`AsDelivered`), so one whose row shows the release,
  and which therefore gets a rollback task, has applied its forward task and never
  does so again, or it came with the release (`RollbackTodo`, `RollbackAfter`).
  In the second case both tasks install the same (`AppliesTheSame`), so it does
  not matter which runs last. `Restored` follows the rollback from the agent's
  `verify` over the report to the row. With four lost requests the property
  fails (section 3), so `SteadyFleet` cannot just be dropped.
* `ArtifactsTypeCorrect`, `ServedWholeHolds`, `LandedVerifiedHolds`,
  `PartsHaveOwnersHolds`, `LockedOutOnlyByFaultHolds` (`ArtifactsProofs`), for
  any fleet, releases, builds, registrations and faults, all from the inductive
  invariant `IInv`, the conjunction of three:
  * `ShopInv`: `Ladder` gives for each position of an ingest the builds
    that were hashed and copied so far, in the order they were built (the path is
    only ever written with newer ones). `ServedWhole` follows: if the build hashed is
    the newest there is, both blocks are of it.
    `Signature` says that the row's signature is the one the operator sent.
  * `DownInv`: what a download holds was once on the shelf (`Got`), and a
    `.part` file has a download in its body. `LandedVerified` follows because
    `Verified` equates the data with the signature, and signatures never change.
  * `BootInv`: for a robot that met no fault and was not registered late, at
    most one request is out; before its agent starts the operator has, or will be
    shown, the token on record (`Before`); afterwards the agent holds it or the one
    answer that is on its way carries it (`After`). `Waits` adds that an agent waits
    for one thing at a time.
* `MigrationsTypeCorrect`, `VersionsFollowSchemaHolds`, `ReadySchemaHolds`,
  `LoneStartSucceedsHolds` (`MigrationsProofs`), for any list of migrations, processes and stops.
  Inductive invariant `Inv`: `Progress` says how far the schema must have
  come for each position of a process, and for the version it has not committed;
  other processes only add to the schema. `LoneStartSucceeds` needs `StartInv`
  besides: a process that is alone and works on a migration finds none of its columns
  there but those it added itself, unless the migration is torn; and a torn migration
  implies a stop, because a process that fails on a column of another leaves
  that one at work on it (`OneAtATime`, `PendingShort`, `Alone`).
* `HealthTypeCorrect`, `HealthySoundHolds`, `PassedRunsTargetHolds`,
  `HealthyGraphPassesHolds` (`RosHealthProofs`), for any manifests, backend,
  graph, jitter and sampling window. Inductive invariant `HealthInv`: what was
  checked so far was right and, unless the graph changed, still is
  (`VerdictSound`); the simulated graph is the one its last boot left
  (`SimKept`). `MeasuredSound` shows that a measured rate within tolerance comes
  from a rate within tolerance, `MeasuredComplete` the converse for long samples,
  which `VerdictComplete` carries through the check.
  `PassedRunsTargetHolds` assumes `VersionsDiffer` (no version at full rates
  passes for another one), `HealthyGraphPassesHolds` assumes `SamplesSuffice` (a
  sample sees two messages of every rate that is good enough). Both are about
  constants, and `MCRosHealth` has TLC evaluate them for the manifests of
  `ros_sim.py`: the first holds, the second holds at 3 s and not at the default
  of 1 s, which is the finding of `slow_topic`.

## 6. What is left

Model-checked only: liveness (`Settles`, `RollbackEnds`, `Bootstraps`,
`VersionRecovers`, `Delivered`), which is out of reach of the prover, and
`RolledBackIsRestored` with one lost request or a restart of the control plane
(run `rollout`) and with crashes and late requests of one robot (`restarts`).
Neither checked nor proved: `NeverUpdatesMidMission` with joining robots and
gates that do not require the dock, where the code breaks it (section 3); and
`BlastRadius`, `VersionOnRecord`, `RolledBackIsRestored` and `KeepsPromise` for a fleet
that robots join.
Every invariant and action property of the passing runs is the subject of a
theorem. The inductive invariants are not checked by a run of their own: the
proofs establish them.

Not modelled:

* `require_operator`: it compares one key and keeps no state.
* In the rollout, a second registration of a robot that is known.
* `check_gates` for thresholds missing from the JSON, and the connectivity
  gate, which no agent can fail; the ceiling of binary fractions.
* A deployment whose strategy makes every tick raise (`app.py:109` takes any
  dictionary); `EngineError` covers a tick that raises once.
* In the ROS backends: resolution of message classes, clocks without
  resolution, tear-down.
* What takes no decision: audit log, logging, readiness, dashboard,
  configuration, demo, packaging, the signing helpers of `artifacts.py`.

What would come next: hypotheses that admit more (up to three lost
requests in `RolledBackIsRestored`, joining robots in `VersionOnRecord`); the staging
arithmetic and the gates against a reference definition; the rollout and
the artifacts as one specification, with tasks that name releases, and so with
registrations and tokens.
