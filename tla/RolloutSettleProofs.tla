------------------------ MODULE RolloutSettleProofs ------------------------
(* When a stage closes and when a deployment stops: proofs of StageSettled *)
(* and StopsOnlyAfterFailures.  Both rest on closed forward tasks staying  *)
(* as they are, that is, on StatusInv.                                     *)
EXTENDS RolloutStatusProofs

USE DEF Rows

(* The tick is on its way to stop its deployment, or rolls it back.        *)
Stopping ==
    \/ eng.pc \in {"set_rolling_back", "collect", "rollback", "halt", "normalise"}
    \/ eng.pc # "idle" /\ eng.only_rollback

TooManyFailures(d) == Cardinality(Failures(d)) > Strategy[d].failure_threshold

(* What the tick has read before it writes deps, still true when it does.  *)
ReadSettled ==
    eng.pc \in {"advance", "complete"} =>
       \A k \in Rows :
          (~tasks[k].is_rollback /\ tasks[k].dep = eng.dep /\ tasks[k].stage = eng.stage)
             => tasks[k].status \in Terminal

ReadFailures == Stopping => TooManyFailures(eng.dep)

SettleInv == StageSettled /\ StopsOnlyAfterFailures /\ ReadSettled /\ ReadFailures

-----------------------------------------------------------------------------
(* What one step may do to rows, deployments and the engine's position.    *)

KeepsRows ==
    \A k \in Rows :
       /\ k \in DOMAIN tasks'
       /\ tasks'[k].dep = tasks[k].dep /\ tasks'[k].stage = tasks[k].stage
       /\ tasks'[k].robot = tasks[k].robot
       /\ tasks'[k].is_rollback = tasks[k].is_rollback

NewRows ==
    \A k \in DOMAIN tasks' : k \notin Rows =>
       /\ eng.pc \in {"create", "rollback"} /\ UNCHANGED deps
       /\ tasks'[k].dep = eng.dep /\ tasks'[k].stage = eng.stage
       /\ tasks'[k].is_rollback => eng.pc = "rollback"

DepsMove ==
    \A d \in Dep :
       /\ \/ deps'[d].stage = deps[d].stage
          \/ deps[d].status = "none" /\ deps'[d].stage = 0
          \/ eng.pc = "advance" /\ d = eng.dep /\ deps'[d].stage = eng.stage + 1
       /\ deps'[d].status = "completed" =>
             deps[d].status = "completed" \/ (eng.pc = "complete" /\ d = eng.dep)
       /\ deps'[d].status \in {"rolling_back", "halted"} =>
             deps[d].status = deps'[d].status \/ (Stopping /\ d = eng.dep)

EngineMove ==
    /\ eng'.pc \in {"advance", "complete"} => UNCHANGED eng \/ StageRead
    /\ Stopping' =>
          \/ Stopping /\ eng'.dep = eng.dep
          \/ eng'.dep \in Dep /\ deps[eng'.dep].status = "rolling_back"
          \/ TooManyFailures(eng'.dep)

Moves == KeepsRows /\ NewRows /\ DepsMove /\ EngineMove

LEMMA MovesOfEngine ==
    ASSUME TypeOK, EngineBusy, EngineNext
    PROVE  Moves
  <1>1. /\ StoreTypeOK /\ eng.todo \subseteq Seen /\ eng.stage \in Nat
        /\ eng.rows \subseteq Nat /\ eng.queue \subseteq Dep
        /\ eng.pc # "idle" => eng.dep \in Dep
        /\ deps \in [Dep -> DepRow]
    BY DEF TypeOK, EngineTypeOK, EngineBusy, StoreTypeOK
  <1>2. eng = [pc |-> eng.pc, queue |-> eng.queue, dep |-> eng.dep, stage |-> eng.stage,
               only_rollback |-> eng.only_rollback, rows |-> eng.rows,
               todo |-> eng.todo, gate |-> eng.gate]
    BY DEF TypeOK, EngineTypeOK
  <1>3. \A q : Idle(q).pc = "idle"
    BY DEF Idle
  <1>4. ASSUME UNCHANGED tasks PROVE KeepsRows /\ NewRows
    BY <1>4 DEF KeepsRows, NewRows
  <1>5. ASSUME SameRows PROVE KeepsRows /\ NewRows
    BY <1>5 DEF SameRows, KeepsRows, NewRows
  <1>6. ASSUME UNCHANGED deps PROVE DepsMove
    BY <1>6 DEF DepsMove
  <1>7. ASSUME NEW row \in TaskRow, CreateTask(row), eng.pc \in {"create", "rollback"},
               UNCHANGED deps, row.dep = eng.dep, row.stage = eng.stage,
               row.is_rollback => eng.pc = "rollback"
        PROVE  KeepsRows /\ NewRows
    <2>1. PICK n : /\ DOMAIN tasks' = Rows \cup {n} /\ n \notin Rows
                   /\ tasks'[n] = row
                   /\ \A k \in Rows : tasks'[k] = tasks[k]
      BY <1>1, <1>7, CreateTaskType
    <2> QED
      BY <1>7, <2>1 DEF KeepsRows, NewRows
  <1>8. ASSUME NEW st \in DepStatus, SetDepStatus(eng.dep, st), eng.pc # "idle",
               st = "completed" => eng.pc = "complete",
               st \in {"rolling_back", "halted"} => Stopping
        PROVE  DepsMove
    BY <1>1, <1>8 DEF SetDepStatus, DepsMove, DepRow
  <1>9. ASSUME eng'.pc = "idle" PROVE EngineMove
    BY <1>9 DEF EngineMove, Stopping
  <1>10. ASSUME eng'.pc \in {"create", "promote", "assign", "stage"},
                eng'.only_rollback = eng.only_rollback, eng.pc # "idle", eng'.dep = eng.dep
         PROVE  EngineMove
    BY <1>10 DEF EngineMove, Stopping
  <1>11. ASSUME eng'.pc \in {"rollback", "collect", "halt", "normalise"}, Stopping,
                eng'.dep = eng.dep
         PROVE  EngineMove
    BY <1>11 DEF EngineMove
  <1>12. CASE Tick
    <2>1. eng'.pc = "idle"
      BY <1>2, <1>12 DEF Tick
    <2> QED
      BY <1>4, <1>6, <1>9, <1>12, <2>1 DEF Tick, storeVars, Moves
  <1>13. CASE Load
    <2>1. PICK d \in eng.queue :
             LET rest == eng.queue \ {d}
                 work == [Idle(rest) EXCEPT !.dep = d, !.stage = deps[d].stage]
             IN  \/ eng' = [work EXCEPT !.pc = "ensure"]
                 \/ /\ eng' = [work EXCEPT !.pc = "create", !.only_rollback = TRUE]
                    /\ deps[d].status = "rolling_back"
                 \/ eng' = Idle(rest)
      BY <1>13 DEF Load
    <2>2. \/ eng'.pc = "ensure" /\ ~eng'.only_rollback
          \/ eng'.pc = "create" /\ eng'.dep = d /\ deps[d].status = "rolling_back"
          \/ eng'.pc = "idle"
      <3> DEFINE rest == eng.queue \ {d}
                 work == [Idle(rest) EXCEPT !.dep = d, !.stage = deps[d].stage]
      <3>1. CASE eng' = [work EXCEPT !.pc = "ensure"]
        BY <3>1 DEF Idle
      <3>2. CASE /\ eng' = [work EXCEPT !.pc = "create", !.only_rollback = TRUE]
                 /\ deps[d].status = "rolling_back"
        BY <3>2 DEF Idle
      <3>3. CASE eng' = Idle(rest)
        BY <3>3 DEF Idle
      <3> QED
        BY <2>1, <3>1, <3>2, <3>3
    <2>3. EngineMove
      BY <1>1, <2>2 DEF EngineMove, Stopping
    <2> QED
      BY <1>4, <1>6, <1>13, <2>3 DEF Load, storeVars, Moves
  <1>14. CASE Ensure
    BY <1>2, <1>4, <1>6, <1>10, <1>14 DEF Ensure, storeVars, Moves
  <1>15. CASE EnsureTask
    <2>1. PICK t \in eng.todo :
             /\ CreateTask([dep |-> eng.dep, robot |-> t.robot, is_rollback |-> FALSE,
                            stage |-> eng.stage,
                            status |-> IF t.robot \in Compat[eng.dep]
                                       THEN "pending" ELSE "skipped",
                            from_version |-> t.version,
                            to_version |-> Release[eng.dep]])
             /\ eng' = [eng EXCEPT !.todo = @ \ {t}]
      BY <1>15 DEF EnsureTask
    <2> DEFINE row == [dep |-> eng.dep, robot |-> t.robot, is_rollback |-> FALSE,
                       stage |-> eng.stage,
                       status |-> IF t.robot \in Compat[eng.dep]
                                  THEN "pending" ELSE "skipped",
                       from_version |-> t.version,
                       to_version |-> Release[eng.dep]]
    <2>2. row \in TaskRow /\ ~row.is_rollback /\ row.dep = eng.dep /\ row.stage = eng.stage
      BY <1>15, NewRowTyped DEF EnsureTask
    <2>3. CreateTask(row) /\ eng.pc = "create" /\ eng'.pc = "create" /\ UNCHANGED deps
          /\ eng'.only_rollback = eng.only_rollback /\ eng'.dep = eng.dep
      BY <1>2, <1>15, <2>1 DEF EnsureTask
    <2> HIDE DEF row
    <2>4. KeepsRows /\ NewRows
      BY <1>7, <2>2, <2>3
    <2>5. DepsMove /\ EngineMove
      BY <1>6, <1>10, <2>3
    <2> QED
      BY <2>4, <2>5 DEF Moves
  <1>16. CASE PromotePending
    BY <1>2, <1>4, <1>6, <1>10, <1>16 DEF PromotePending, storeVars, Moves
  <1>17. CASE CheckGates
    BY <1>2, <1>4, <1>6, <1>10, <1>17 DEF CheckGates, storeVars, Moves
  <1>18. CASE Assign
    <2>1. PICK k \in eng.rows : SetTaskStatus(k, IF eng.gate THEN "assigned" ELSE "pending")
      BY <1>18 DEF Assign
    <2>2. SameRows
      BY <1>1, <2>1, StatusWriteSameRows DEF TaskStatus
    <2> QED
      BY <1>2, <1>5, <1>6, <1>10, <1>18, <2>2 DEF Assign, Moves
  <1>19. CASE CountFailures
    <2>1. \/ eng'.pc = "stage"
          \/ TooManyFailures(eng.dep) /\ eng'.pc \in {"set_rolling_back", "halt"}
      BY <1>2, <1>19 DEF CountFailures, TooManyFailures
    <2>2. eng'.dep = eng.dep /\ eng'.only_rollback = eng.only_rollback /\ eng.pc # "idle"
      BY <1>2, <1>19 DEF CountFailures
    <2>3. EngineMove
      BY <2>1, <2>2, <1>10 DEF EngineMove
    <2> QED
      BY <1>4, <1>6, <1>19, <2>3 DEF CountFailures, storeVars, Moves
  <1>20. CASE SetRollingBack
    <2>1. Stopping /\ eng.pc # "idle" /\ eng'.pc = "collect" /\ eng'.dep = eng.dep
          /\ SetDepStatus(eng.dep, "rolling_back") /\ UNCHANGED tasks
      BY <1>2, <1>20 DEF SetRollingBack, Stopping
    <2> QED
      BY <1>4, <1>8, <1>11, <2>1 DEF Moves, DepStatus
  <1>21. CASE CollectRollbacks
    <2>1. Stopping /\ eng'.pc \in {"halt", "rollback"} /\ eng'.dep = eng.dep
      BY <1>2, <1>21 DEF CollectRollbacks, Stopping
    <2> QED
      BY <1>4, <1>6, <1>11, <1>21, <2>1 DEF CollectRollbacks, storeVars, Moves
  <1>22. CASE CreateRollback
    <2>1. PICK t \in eng.todo, prev \in Version :
             /\ CreateTask([dep |-> eng.dep, robot |-> t.robot, is_rollback |-> TRUE,
                            stage |-> eng.stage, status |-> "pending",
                            from_version |-> Release[eng.dep], to_version |-> prev])
             /\ \/ eng' = Idle(eng.queue)
                \/ eng' = [eng EXCEPT !.todo = @ \ {t}]
      BY <1>22 DEF CreateRollback, Return
    <2> DEFINE row == [dep |-> eng.dep, robot |-> t.robot, is_rollback |-> TRUE,
                       stage |-> eng.stage, status |-> "pending",
                       from_version |-> Release[eng.dep], to_version |-> prev]
    <2>2. row \in TaskRow /\ row.dep = eng.dep /\ row.stage = eng.stage
      BY <1>22, NewRowTyped DEF CreateRollback
    <2>3. CreateTask(row) /\ eng.pc = "rollback" /\ UNCHANGED deps
          /\ (eng'.pc = "idle" \/ (eng'.pc = "rollback" /\ eng'.dep = eng.dep))
      BY <1>2, <1>3, <1>22, <2>1 DEF CreateRollback
    <2> HIDE DEF row
    <2>4. KeepsRows /\ NewRows
      BY <1>7, <2>2, <2>3
    <2>5. DepsMove /\ EngineMove
      BY <1>6, <1>9, <1>11, <2>3 DEF Stopping
    <2> QED
      BY <2>4, <2>5 DEF Moves
  <1>23. CASE Halt
    <2>1. Stopping /\ eng.pc # "idle" /\ eng'.pc = "idle"
          /\ SetDepStatus(eng.dep, "halted") /\ UNCHANGED tasks
      BY <1>3, <1>23 DEF Halt, Return, Stopping
    <2> QED
      BY <1>4, <1>8, <1>9, <2>1 DEF Moves, DepStatus
  <1>24. CASE StageRead
    <2>1. eng'.pc = "idle" \/ (eng'.pc \in {"advance", "complete"}
                               /\ eng'.only_rollback = eng.only_rollback
                               /\ eng'.dep = eng.dep /\ eng.pc # "idle")
      BY <1>2, <1>3, <1>24 DEF StageRead, Return
    <2>2. EngineMove
      BY <1>24, <2>1 DEF EngineMove, Stopping
    <2> QED
      BY <1>4, <1>6, <1>24, <2>2 DEF StageRead, storeVars, Moves
  <1>25. CASE Advance
    <2>1. DepsMove
      BY <1>1, <1>25 DEF Advance, SetDepStage, DepsMove, DepRow
    <2> QED
      BY <1>3, <1>4, <1>9, <1>25, <2>1 DEF Advance, Return, Moves
  <1>26. CASE Complete
    <2>1. eng.pc = "complete" /\ eng'.pc = "idle"
          /\ SetDepStatus(eng.dep, "completed") /\ UNCHANGED tasks
      BY <1>3, <1>26 DEF Complete, Return
    <2> QED
      BY <1>4, <1>8, <1>9, <2>1 DEF Moves, DepStatus
  <1>27. CASE NormaliseRead
    <2>1. Stopping /\ eng'.pc = "normalise" /\ eng'.dep = eng.dep
      BY <1>2, <1>27 DEF NormaliseRead, Stopping
    <2> QED
      BY <1>4, <1>6, <1>11, <1>27, <2>1 DEF NormaliseRead, storeVars, Moves
  <1>28. CASE Normalise
    <2>1. PICK k \in eng.rows : SetTaskStatus(k, "rolled_back")
      BY <1>28 DEF Normalise
    <2>2. SameRows
      BY <1>1, <2>1, StatusWriteSameRows DEF TaskStatus, Terminal
    <2>3. Stopping /\ eng'.pc = "normalise" /\ eng'.dep = eng.dep
      BY <1>2, <1>28 DEF Normalise, Stopping
    <2> QED
      BY <1>5, <1>6, <1>11, <1>28, <2>2, <2>3 DEF Normalise, Moves
  <1>29. CASE FinishRead
    <2>1. Stopping /\ (eng'.pc = "idle" \/ (eng'.pc = "halt" /\ eng'.dep = eng.dep))
      BY <1>2, <1>3, <1>29 DEF FinishRead, Return, Stopping
    <2> QED
      BY <1>4, <1>6, <1>9, <1>11, <1>29, <2>1 DEF FinishRead, storeVars, Moves
  <1> QED
    BY <1>12, <1>13, <1>14, <1>15, <1>16, <1>17, <1>18, <1>19, <1>20, <1>21, <1>22,
       <1>23, <1>24, <1>25, <1>26, <1>27, <1>28, <1>29 DEF EngineNext

LEMMA StepMoves ==
    ASSUME TypeInv, TypeInv', [Next]_vars
    PROVE  Moves
  <1>1. /\ TypeOK /\ EngineBusy /\ StoreTypeOK /\ calls \subseteq Call
        /\ deps \in [Dep -> DepRow]
    BY DEF TypeInv, TypeOK, StoreTypeOK, ApiTypeOK
  <1>2. ASSUME UNCHANGED deps, SameRows, UNCHANGED eng \/ eng'.pc = "idle"
        PROVE  Moves
    BY <1>2 DEF Moves, KeepsRows, NewRows, DepsMove, EngineMove, SameRows, Stopping
  <1>3. ASSUME UNCHANGED tasks PROVE SameRows
    BY <1>3 DEF SameRows
  <1>4. CASE EngineMoves
    BY <1>1, <1>4, MovesOfEngine DEF EngineMoves
  <1>5. ASSUME NEW r \in Robot, HandlerMoves(r) PROVE Moves
    <2>1. PICK c \in calls : Handle(c)
      BY <1>5 DEF HandlerMoves, CallsOf
    <2>2. CASE TaskStatusWrite(c)
      <3>1. c.task \in Nat /\ c.status \in TaskStatus
        BY <1>1, <2>2 DEF TaskStatusWrite, Call, CallStatus, TaskStatus
      <3>2. SameRows
        BY <1>1, <2>2, <3>1, StatusWriteSameRows DEF TaskStatusWrite
      <3> QED
        BY <1>2, <1>5, <2>2, <3>2 DEF HandlerMoves, TaskStatusWrite
    <2>3. CASE Register(c) \/ UpdateRobotState(c) \/ VersionWrite(c)
      BY <1>2, <1>3, <1>5, <2>3
         DEF HandlerMoves, Register, UpdateRobotState, VersionWrite
    <2> QED
      BY <2>1, <2>2, <2>3 DEF Handle
  <1>6. ASSUME NEW r \in Robot, AgentMoves(r) PROVE Moves
    BY <1>2, <1>3, <1>6
       DEF AgentMoves, AgentStep, Heartbeat, Poll, Preflight, Download, Apply, Verify,
           storeVars
  <1>7. ASSUME NEW r \in Robot, RegisterRobot(r) \/ HeartbeatStale(r) PROVE Moves
    BY <1>2, <1>3, <1>7 DEF RegisterRobot, HeartbeatStale
  <1>8. ASSUME NEW d \in Dep, CreateDeployment(d) \/ Pause(d) \/ Resume(d) PROVE Moves
    <2>1. UNCHANGED <<tasks, eng>>
      BY <1>8 DEF CreateDeployment, Pause, Resume
    <2>2. DepsMove
      BY <1>1, <1>8
         DEF CreateDeployment, Pause, Resume, SetDepStatus, DepsMove, DepRow
    <2>3. KeepsRows /\ NewRows /\ EngineMove
      BY <2>1 DEF KeepsRows, NewRows, EngineMove, Stopping
    <2> QED
      BY <2>2, <2>3 DEF Moves
  <1>9. CASE FaultMoves
    <2>1. UNCHANGED <<deps, tasks>> /\ (UNCHANGED eng \/ \E queue : eng' = Idle(queue))
      BY <1>9 DEF FaultMoves, LoseCall, Timeout, AgentCrash, AgentRestart,
                  UpdateRaises, ServerRestart, EngineError, Return
    <2> QED
      BY <1>2, <1>3, <2>1 DEF Idle
  <1>10. CASE UNCHANGED vars
    BY <1>2, <1>3, <1>10 DEF vars
  <1> QED
    BY <1>4, <1>5, <1>6, <1>7, <1>8, <1>9, <1>10 DEF Next, OperatorMoves

-----------------------------------------------------------------------------
(* A forward task that is closed stays as it is. *)
ClosedStay ==
    \A k \in Rows : ~tasks[k].is_rollback /\ tasks[k].status \in Terminal
       => tasks'[k].status = tasks[k].status

LEMMA ClosedRowsStay ==
    ASSUME InStep, TypeInv, TypeInv', StatusInv, [Next]_vars
    PROVE  ClosedStay
  <1> SUFFICES ASSUME NEW k \in Rows, ~tasks[k].is_rollback,
                      tasks[k].status \in Terminal
               PROVE  tasks'[k].status = tasks[k].status
    BY DEF ClosedStay
  <1>1. k \in DOMAIN tasks' /\ StatusStep(k)
    BY StepMoves, StepStatus DEF Moves, KeepsRows
  <1>2. tasks[k].status \in TaskStatus /\ tasks'[k].status \in TaskStatus
    <2>1. tasks[k] \in TaskRow /\ tasks'[k] \in TaskRow
      BY <1>1 DEF TypeInv, TypeOK, StoreTypeOK
    <2> QED
      BY <2>1 DEF TaskRow
  <1>3. Rank(tasks[k].status) = 5 /\ Rank(tasks'[k].status) \in 0..5
    BY <1>2, RankOf
  <1> QED
    BY <1>1, <1>3 DEF StatusStep

(* So the failures of a deployment can only become more. *)
LEMMA FailuresGrow ==
    ASSUME TypeOK, TypeOK', KeepsRows, ClosedStay, NEW d \in Dep, TooManyFailures(d)
    PROVE  TooManyFailures(d)'
  <1>1. Failures(d) \subseteq Failures(d)'
    BY DEF Failures, WithStatus, Forward, TasksOf, KeepsRows, ClosedStay, Terminal
  <1>2. IsFiniteSet(Failures(d)')
    <2>1. tasks' \in Seq(TaskRow)
      BY DEF TypeOK, StoreTypeOK
    <2>2. Len(tasks') \in Nat /\ DOMAIN tasks' = 1..Len(tasks')
      BY <2>1
    <2>3. IsFiniteSet(DOMAIN tasks')
      BY <2>2, FS_Interval
    <2>4. Failures(d)' \subseteq DOMAIN tasks'
      BY DEF Failures, WithStatus, Forward, TasksOf
    <2> QED
      BY <2>3, <2>4, FS_Subset
  <1>3. /\ Cardinality(Failures(d)) <= Cardinality(Failures(d)')
        /\ Cardinality(Failures(d)) \in Nat /\ Cardinality(Failures(d)') \in Nat
    BY <1>1, <1>2, FS_Subset, FS_CardinalityType
  <1>4. Strategy[d].failure_threshold \in Nat
    BY StoreAssumption DEF StrategyType
  <1> QED
    BY <1>3, <1>4 DEF TooManyFailures

-----------------------------------------------------------------------------
LEMMA StepSettle ==
    ASSUME TypeInv, TypeInv', WaveInv, SettleInv, Moves, ClosedStay
    PROVE  SettleInv'
  <1>1. /\ \A k \in Rows : tasks[k] \in TaskRow
        /\ \A k \in DOMAIN tasks' : tasks'[k] \in TaskRow
        /\ deps \in [Dep -> DepRow] /\ deps' \in [Dep -> DepRow]
        /\ eng.pc # "idle" => eng.dep \in Dep
    BY DEF TypeInv, TypeOK, StoreTypeOK, EngineBusy
  <1>2. /\ \A k \in Rows : tasks[k].dep \in Dep /\ tasks[k].stage \in Nat
                            /\ tasks[k].is_rollback \in BOOLEAN
        /\ \A k \in DOMAIN tasks' : tasks'[k].dep \in Dep /\ tasks'[k].stage \in Nat
        /\ \A d \in Dep : deps[d].stage \in Nat /\ deps'[d].stage \in Nat
    BY <1>1 DEF TaskRow, DepRow
  <1>3. StageSettled'
    <2> SUFFICES ASSUME NEW k \in DOMAIN tasks', ~tasks'[k].is_rollback,
                        \/ tasks'[k].stage < deps'[tasks'[k].dep].stage
                        \/ deps'[tasks'[k].dep].status = "completed"
                 PROVE  tasks'[k].status \in Terminal
      BY DEF StageSettled, Forward
    <2>1. CASE k \notin Rows
      <3>1. /\ UNCHANGED deps /\ tasks'[k].dep = eng.dep /\ tasks'[k].stage = eng.stage
            /\ eng.pc # "idle"
        BY <2>1 DEF Moves, NewRows
      <3>2. eng.stage = deps[eng.dep].stage /\ deps[eng.dep].status # "completed"
        BY <3>1 DEF WaveInv, SnapshotStage
      <3> QED
        BY <1>2, <3>1, <3>2
    <2>2. CASE k \in Rows
      <3> DEFINE d == tasks[k].dep
      <3>1. /\ tasks'[k].dep = d /\ tasks'[k].stage = tasks[k].stage
            /\ ~tasks[k].is_rollback /\ d \in Dep /\ deps[d].status # "none"
            /\ tasks[k].stage <= deps[d].stage
        BY <1>2, <2>2 DEF Moves, KeepsRows, WaveInv, NoTasksYet, RowsInWave
      <3>2. (tasks[k].stage < deps[d].stage \/ deps[d].status = "completed")
               => tasks[k].status \in Terminal
        BY <2>2, <3>1 DEF SettleInv, StageSettled, Forward
      <3>3. eng.pc \in {"advance", "complete"} /\ d = eng.dep =>
               /\ eng.stage = deps[d].stage
               /\ tasks[k].stage = eng.stage => tasks[k].status \in Terminal
        BY <2>2, <3>1 DEF SettleInv, ReadSettled, WaveInv, SnapshotStage
      <3>4. /\ \/ deps'[d].stage = deps[d].stage
               \/ eng.pc = "advance" /\ d = eng.dep /\ deps'[d].stage = eng.stage + 1
            /\ deps'[d].status = "completed" =>
                  deps[d].status = "completed" \/ (eng.pc = "complete" /\ d = eng.dep)
        BY <3>1 DEF Moves, DepsMove
      <3>5. tasks[k].stage \in Nat /\ deps[d].stage \in Nat /\ deps'[d].stage \in Nat
        BY <1>2, <2>2, <3>1
      <3> HIDE DEF d
      <3>6. tasks[k].status \in Terminal
        <4>1. CASE deps'[d].status = "completed"
          BY <3>1, <3>2, <3>3, <3>4, <3>5, <4>1
        <4>2. CASE tasks[k].stage < deps'[d].stage
          BY <3>1, <3>2, <3>3, <3>4, <3>5, <4>2
        <4> QED
          BY <3>1, <4>1, <4>2
      <3> QED
        BY <2>2, <3>1, <3>6 DEF ClosedStay
    <2> QED
      BY <2>1, <2>2
  <1>4. ReadSettled'
    <2> SUFFICES ASSUME eng'.pc \in {"advance", "complete"}, NEW k \in DOMAIN tasks',
                        ~tasks'[k].is_rollback, tasks'[k].dep = eng'.dep,
                        tasks'[k].stage = eng'.stage
                 PROVE  tasks'[k].status \in Terminal
      BY DEF ReadSettled
    <2>1. CASE UNCHANGED eng
      <3>1. k \in Rows
        BY <2>1 DEF Moves, NewRows
      <3>2. tasks[k].status \in Terminal /\ ~tasks[k].is_rollback
        BY <2>1, <3>1 DEF Moves, KeepsRows, SettleInv, ReadSettled
      <3> QED
        BY <3>1, <3>2 DEF ClosedStay
    <2>2. CASE StageRead
      <3>1. /\ UNCHANGED tasks
            /\ Forward(StageTasks(eng.dep, eng.stage)) =
                  WithStatus(Forward(StageTasks(eng.dep, eng.stage)), Terminal)
            /\ eng' = [eng EXCEPT !.pc = IF eng.stage < MaxStage(eng.dep)
                                         THEN "advance" ELSE "complete"]
        BY <2>2 DEF StageRead, Return, Idle, storeVars
      <3>2. eng'.dep = eng.dep /\ eng'.stage = eng.stage
        BY <3>1 DEF TypeInv, TypeOK, EngineTypeOK
      <3> QED
        BY <3>1, <3>2 DEF Forward, StageTasks, TasksOf, WithStatus
    <2> QED
      BY <2>1, <2>2 DEF Moves, EngineMove
  <1>5. \A d \in Dep : TooManyFailures(d) => TooManyFailures(d)'
    BY FailuresGrow DEF Moves, TypeInv
  <1>6. \A d \in Dep : deps[d].status \in {"rolling_back", "halted"}
                        \/ Rollbacks(TasksOf(d)) # {} => TooManyFailures(d)
    BY DEF SettleInv, StopsOnlyAfterFailures, TooManyFailures
  <1>7. Stopping => TooManyFailures(eng.dep) /\ eng.dep \in Dep
    BY <1>1 DEF SettleInv, ReadFailures, Stopping
  <1>8. StopsOnlyAfterFailures'
    <2> SUFFICES ASSUME NEW d \in Dep,
                        \/ deps'[d].status \in {"rolling_back", "halted"}
                        \/ Rollbacks(TasksOf(d))' # {}
                 PROVE  TooManyFailures(d)'
      BY DEF StopsOnlyAfterFailures, TooManyFailures
    <2>1. CASE deps'[d].status \in {"rolling_back", "halted"}
      BY <1>5, <1>6, <1>7, <2>1 DEF Moves, DepsMove
    <2>2. CASE Rollbacks(TasksOf(d))' # {}
      <3>1. PICK k \in DOMAIN tasks' : tasks'[k].dep = d /\ tasks'[k].is_rollback
        BY <2>2 DEF Rollbacks, TasksOf
      <3>2. CASE k \in Rows
        <4>1. k \in Rollbacks(TasksOf(d))
          BY <3>1, <3>2 DEF Moves, KeepsRows, Rollbacks, TasksOf
        <4> QED
          BY <1>5, <1>6, <4>1
      <3>3. CASE k \notin Rows
        <4>1. Stopping /\ d = eng.dep
          BY <3>1, <3>3 DEF Moves, NewRows, Stopping
        <4> QED
          BY <1>5, <1>7, <4>1
      <3> QED
        BY <3>2, <3>3
    <2> QED
      BY <2>1, <2>2
  <1>9. ReadFailures'
    <2> SUFFICES ASSUME Stopping' PROVE (TooManyFailures(eng.dep))'
      BY DEF ReadFailures
    <2>1. PICK d \in Dep : d = eng'.dep
      BY DEF TypeInv, EngineBusy, Stopping
    <2>2. TooManyFailures(d)
      <3>1. \/ Stopping /\ d = eng.dep
            \/ deps[d].status = "rolling_back"
            \/ TooManyFailures(d)
        BY <2>1 DEF Moves, EngineMove
      <3> QED
        BY <1>6, <1>7, <3>1
    <2>3. TooManyFailures(d)'
      BY <1>5, <2>2
    <2> QED
      BY <2>1, <2>3 DEF TooManyFailures, Failures, TasksOf
  <1> QED
    BY <1>3, <1>4, <1>8, <1>9 DEF SettleInv

LEMMA InitSettle == ASSUME Init PROVE SettleInv
  <1>1. eng.pc = "idle" /\ DOMAIN tasks = {} /\ \A d \in Dep : deps[d].status = "none"
    BY DEF Init, EngineInit, Idle, StoreInit
  <1> QED
    BY <1>1 DEF SettleInv, StageSettled, StopsOnlyAfterFailures, ReadSettled,
                ReadFailures, Stopping, Rollbacks, Forward, TasksOf

LEMMA SettleCorrect == ASSUME InStep PROVE Spec => []SettleInv
  <1>1. Init => SettleInv
    BY InitSettle
  <1>2. TypeInv /\ TypeInv' /\ WaveInv /\ StatusInv /\ SettleInv /\ [Next]_vars
           => SettleInv'
    BY StepMoves, ClosedRowsStay, StepSettle
  <1> QED
    BY InitType, StepType, WaveCorrect, StatusCorrect, <1>1, <1>2, PTL DEF Spec

(* A later stage opens, or the deployment completes, only when every       *)
(* earlier forward task is closed, and none is reopened afterwards; for    *)
(* every operator and every fault but a report overtaken by another.       *)
THEOREM StageSettledHolds ==
    ASSUME InStep
    PROVE  Spec => []StageSettled
  <1>1. SettleInv => StageSettled
    BY DEF SettleInv
  <1> QED
    BY SettleCorrect, <1>1, PTL

(* A deployment that rolls back, has rollback tasks or is halted has more  *)
(* failures on record than its threshold, and keeps them.                  *)
THEOREM StopsOnlyAfterFailuresHolds ==
    ASSUME InStep
    PROVE  Spec => []StopsOnlyAfterFailures
  <1>1. SettleInv => StopsOnlyAfterFailures
    BY DEF SettleInv
  <1> QED
    BY SettleCorrect, <1>1, PTL

-----------------------------------------------------------------------------
(* The founders up to r, by whose number Prefix selects. *)
UpTo(r) == {other \in Founders : other <= r}

LEMMA SameSize ==
    ASSUME NEW S, NEW T, IsFiniteSet(S), T \subseteq S, Cardinality(T) = Cardinality(S)
    PROVE  T = S
  BY FS_Subset

(* The robots of a prefix are numbered 1..n without repetition.            *)
LEMMA PrefixRank ==
    ASSUME NEW n \in Nat, NEW r \in Prefix(Founders, n),
           NEW q \in Prefix(Founders, n)
    PROVE  /\ Cardinality(UpTo(r)) \in 1..n
           /\ Cardinality(UpTo(r)) = Cardinality(UpTo(q)) => r = q
  <1>1. /\ Founders \subseteq Nat /\ IsFiniteSet(Founders)
        /\ r \in Founders /\ q \in Founders
    BY StoreAssumption, FS_Subset DEF Prefix, Founders
  <1>2. UpTo(r) \in SUBSET Founders /\ UpTo(q) \in SUBSET Founders
    BY DEF UpTo
  <1>3. IsFiniteSet(UpTo(r)) /\ IsFiniteSet(UpTo(q))
    BY <1>1, <1>2, FS_Subset
  <1>4. Cardinality(UpTo(r)) \in Nat /\ Cardinality(UpTo(r)) # 0
    <2>1. r \in UpTo(r)
      BY <1>1 DEF UpTo
    <2> QED
      BY <1>3, <2>1, FS_CardinalityType, FS_EmptySet
  <1>5. Cardinality(UpTo(r)) <= n
    BY DEF Prefix, UpTo
  <1>6. ASSUME Cardinality(UpTo(r)) = Cardinality(UpTo(q)) PROVE UpTo(r) = UpTo(q)
    <2>1. CASE r <= q
      <3>1. ASSUME NEW x \in UpTo(r) PROVE x \in UpTo(q)
        <4>1. x \in Founders /\ x <= r
          BY DEF UpTo
        <4>2. x \in Nat /\ r \in Nat /\ q \in Nat
          BY <1>1, <4>1
        <4>3. x <= q
          BY <2>1, <4>1, <4>2
        <4> QED
          BY <4>1, <4>3 DEF UpTo
      <3> QED
        BY <1>3, <1>6, <3>1, SameSize
    <2>2. CASE q <= r
      <3>1. ASSUME NEW x \in UpTo(q) PROVE x \in UpTo(r)
        <4>1. x \in Founders /\ x <= q
          BY DEF UpTo
        <4>2. x \in Nat /\ q \in Nat /\ r \in Nat
          BY <1>1, <4>1
        <4>3. x <= r
          BY <2>2, <4>1, <4>2
        <4> QED
          BY <4>1, <4>3 DEF UpTo
      <3> QED
        BY <1>3, <1>6, <3>1, SameSize
    <2> QED
      BY <1>1, <2>1, <2>2
  <1>7. UpTo(r) = UpTo(q) => r = q
    <2>1. r \in UpTo(r) /\ q \in UpTo(q)
      BY <1>1 DEF UpTo
    <2>2. ASSUME UpTo(r) = UpTo(q) PROVE r <= q /\ q <= r
      BY <2>1, <2>2 DEF UpTo
    <2> QED
      BY <1>1, <2>2
  <1> QED
    BY <1>4, <1>5, <1>6, <1>7

(* The canary stage goes to no more of the robots that were there from the *)
(* start than the strategy says (engine.py:58-63), whoever joins the fleet *)
(* before, between or after them.                                          *)
THEOREM CanaryCountHolds == Spec => []CanaryCount
  <1>1. ASSUME TypeOK, WaveInv, UniqueTask PROVE CanaryCount
    <2> DEFINE Canaries(d) == {k \in Forward(StageTasks(d, 0)) : tasks[k].robot \notin Joiners}
    <2> SUFFICES ASSUME NEW d \in Dep
                 PROVE  Cardinality(Canaries(d)) <= Strategy[d].canary_count
      BY DEF CanaryCount
    <2> DEFINE S == Canaries(d)
               n == Strategy[d].canary_count
               rank == [k \in S |-> Cardinality(UpTo(tasks[k].robot))]
    <2>1. \A k \in DOMAIN tasks : tasks[k].is_rollback \in BOOLEAN
      <3>1. \A k \in DOMAIN tasks : tasks[k] \in TaskRow
        BY <1>1 DEF TypeOK, StoreTypeOK
      <3> QED
        BY <3>1 DEF TaskRow
    <2>2. n \in Nat
      BY StoreAssumption DEF StrategyType
    <2>3. ASSUME NEW k \in S
          PROVE  /\ tasks[k].dep = d /\ ~tasks[k].is_rollback /\ k \in DOMAIN tasks
                 /\ tasks[k].robot \in Prefix(Founders, n)
      BY <1>1, <2>3 DEF WaveInv, RowsInWave, Within, Forward, StageTasks, TasksOf, Rows
    <2> HIDE DEF n
    <2>4. \A k \in S : rank[k] \in 1..n
      BY <2>2, <2>3, PrefixRank
    <2>5. ASSUME NEW k \in S, NEW j \in S, rank[k] = rank[j] PROVE k = j
      <3>1. tasks[k].robot = tasks[j].robot
        BY <2>2, <2>3, <2>5, PrefixRank
      <3>2. tasks[k].dep = tasks[j].dep /\ tasks[k].is_rollback = tasks[j].is_rollback
            /\ k \in DOMAIN tasks /\ j \in DOMAIN tasks
        BY <2>1, <2>3
      <3> QED
        BY <1>1, <3>1, <3>2 DEF UniqueTask, Rows
    <2>6. rank \in [S -> 1..n]
      BY <2>4
    <2> HIDE DEF rank, S
    <2>7. rank \in Injection(S, 1..n)
      BY <2>5, <2>6 DEF Injection, IsInjective
    <2>8. IsFiniteSet(1..n) /\ Cardinality(1..n) = n
      BY <2>2, FS_Interval
    <2>9. Cardinality(S) <= n
      BY <2>7, <2>8, FS_Injection
    <2> QED
      BY <2>9 DEF S, n
  <1>2. Spec => []TypeOK
    BY TypeCorrect
  <1>3. Spec => []UniqueTask
    BY UniqueTaskHolds
  <1> QED
    BY <1>1, <1>2, <1>3, WaveCorrect, PTL
=============================================================================
