------------------------ MODULE RolloutPromiseProofs ------------------------
(* What a deployment goes through, seen from outside: proofs of            *)
(* HaltedRollbacksDone and of the refinement of module Campaign.           *)
EXTENDS RolloutSettleProofs, RolloutRefinement

USE DEF Rows

(* The operator follows the lifecycle of docs/API.md:97-100: only running  *)
(* deployments are paused, only paused ones are resumed.                   *)
InOrder == PauseFrom \subseteq {"running"} /\ ResumeFrom \subseteq {"paused"}

(* A deployment as _process_running may find it at any of its store calls. *)
Open(d) == deps[d].status \in {"running", "paused"}

(* The status the engine branched on is out of date by a pause at most.    *)
Phase ==
    eng.pc # "idle" =>
       /\ eng.only_rollback \/ eng.pc \in {"collect", "rollback"}
             => deps[eng.dep].status = "rolling_back"
       /\ ~eng.only_rollback /\ eng.pc \notin {"collect", "rollback", "halt"} => Open(eng.dep)
       /\ eng.pc = "halt" => Open(eng.dep) \/ deps[eng.dep].status = "rolling_back"
       /\ eng.pc = "normalise" => eng.only_rollback
       /\ eng.pc \in {"ensure", "set_rolling_back", "collect", "rollback",
                      "stage", "advance", "complete"} => ~eng.only_rollback
       /\ eng.pc = "create" /\ eng.only_rollback => eng.todo = {}
       /\ eng.pc = "advance" => eng.stage < MaxStage(eng.dep)
       /\ eng.pc = "complete" => eng.stage >= MaxStage(eng.dep)

StageBound ==
    \A d \in Dep : /\ deps[d].stage <= MaxStage(d)
                   /\ deps[d].status = "none" => deps[d].stage = 0

(* Rollback rows: none before the deployment rolls back, and none open     *)
(* when it is halted or about to be.                                       *)
RollbackOf(d, k) == tasks[k].dep = d /\ tasks[k].is_rollback

RollbacksLate ==
    \A k \in Rows : tasks[k].is_rollback =>
       deps[tasks[k].dep].status \in {"rolling_back", "halted"}

CollectFirst == eng.pc = "collect" => \A k \in Rows : ~RollbackOf(eng.dep, k)

RollbacksDone(d) == \A k \in Rows : RollbackOf(d, k) => tasks[k].status \in Terminal

HaltRead == eng.pc = "halt" => RollbacksDone(eng.dep)

HaltedDone == \A d \in Dep : deps[d].status = "halted" => RollbacksDone(d)

PhaseInv == Phase /\ StageBound /\ RollbacksLate /\ CollectFirst /\ HaltRead /\ HaltedDone

(* The lifecycle of a deployment: who may change its status, and how.      *)
Lifecycle ==
    \A d \in Dep : deps'[d].status # deps[d].status =>
       \/ deps[d].status = "none" /\ deps'[d].status = "running"
       \/ deps[d].status = "running" /\ deps'[d].status = "paused"
       \/ deps[d].status = "paused" /\ deps'[d].status = "running"
       \/ /\ d = eng.dep /\ eng.pc = "set_rolling_back"
          /\ Open(d) /\ deps'[d].status = "rolling_back"
       \/ /\ d = eng.dep /\ eng.pc = "complete"
          /\ Open(d) /\ deps'[d].status = "completed"
       \/ /\ d = eng.dep /\ eng.pc = "halt"
          /\ Open(d) \/ deps[d].status = "rolling_back"
          /\ deps'[d].status = "halted"

(* What a tick has just read when it goes on to collect or to halt.        *)
EngineReads ==
    /\ eng'.pc = "collect" =>
          /\ eng'.dep = eng.dep /\ eng.pc = "set_rolling_back" /\ UNCHANGED tasks
    /\ eng'.pc = "halt" => eng'.dep = eng.dep /\ RollbacksDone(eng.dep) /\ UNCHANGED tasks

-----------------------------------------------------------------------------
LEMMA EnginePhase ==
    ASSUME TypeOK, EngineBusy, PhaseInv, EngineNext
    PROVE  Phase' /\ Lifecycle /\ EngineReads
  <1>1. /\ eng.stage \in Nat /\ eng.queue \subseteq Dep
        /\ eng.pc # "idle" => eng.dep \in Dep
        /\ deps \in [Dep -> DepRow] /\ \A d \in Dep : deps[d] \in DepRow
    BY DEF TypeOK, EngineTypeOK, EngineBusy, StoreTypeOK
  <1>2. eng = [pc |-> eng.pc, queue |-> eng.queue, dep |-> eng.dep, stage |-> eng.stage,
               only_rollback |-> eng.only_rollback, rows |-> eng.rows,
               todo |-> eng.todo, gate |-> eng.gate]
    BY DEF TypeOK, EngineTypeOK
  <1>3. \A q : Idle(q).pc = "idle"
    BY DEF Idle
  <1>4. ASSUME UNCHANGED deps PROVE Lifecycle
    BY <1>4 DEF Lifecycle
  <1>5. ASSUME eng'.pc = "idle" PROVE Phase' /\ EngineReads
    BY <1>5 DEF Phase, EngineReads
  <1>6. ASSUME UNCHANGED deps, eng.pc # "idle", eng'.dep = eng.dep, eng'.stage = eng.stage,
               eng'.only_rollback = eng.only_rollback,
               eng.pc \in {"create", "promote", "assign"},
               eng'.pc \in {"promote", "assign"}
        PROVE  Phase' /\ Lifecycle /\ EngineReads
    BY <1>4, <1>6 DEF PhaseInv, Phase, EngineReads, Open
  <1>7. CASE Tick
    <2>1. eng'.pc = "idle"
      BY <1>2, <1>7 DEF Tick
    <2> QED
      BY <1>4, <1>5, <1>7, <2>1 DEF Tick, storeVars
  <1>8. CASE Load
    <2>1. PICK d \in eng.queue :
             LET rest == eng.queue \ {d}
                 work == [Idle(rest) EXCEPT !.dep = d, !.stage = deps[d].stage]
             IN  \/ /\ eng' = [work EXCEPT !.pc = "ensure"]
                    /\ deps[d].status = "running"
                 \/ /\ eng' = [work EXCEPT !.pc = "create", !.only_rollback = TRUE]
                    /\ deps[d].status = "rolling_back"
                 \/ eng' = Idle(rest)
      BY <1>8 DEF Load
    <2>2. \/ /\ eng'.pc = "ensure" /\ eng'.dep = d /\ ~eng'.only_rollback
             /\ deps[d].status = "running"
          \/ /\ eng'.pc = "create" /\ eng'.dep = d /\ eng'.only_rollback
             /\ eng'.todo = {} /\ deps[d].status = "rolling_back"
          \/ eng'.pc = "idle"
      <3> DEFINE rest == eng.queue \ {d}
                 work == [Idle(rest) EXCEPT !.dep = d, !.stage = deps[d].stage]
      <3>1. CASE eng' = [work EXCEPT !.pc = "ensure"] /\ deps[d].status = "running"
        BY <3>1 DEF Idle
      <3>2. CASE /\ eng' = [work EXCEPT !.pc = "create", !.only_rollback = TRUE]
                 /\ deps[d].status = "rolling_back"
        BY <3>2 DEF Idle
      <3>3. CASE eng' = Idle(rest)
        BY <3>3 DEF Idle
      <3> QED
        BY <2>1, <3>1, <3>2, <3>3
    <2>3. UNCHANGED deps
      BY <1>8 DEF Load, storeVars
    <2> QED
      BY <1>4, <2>2, <2>3 DEF Phase, EngineReads, Open
  <1>9. CASE Ensure
    <2>1. /\ eng.pc = "ensure" /\ eng'.pc = "create" /\ eng'.dep = eng.dep /\ UNCHANGED deps
          /\ eng'.only_rollback = eng.only_rollback
      BY <1>2, <1>9 DEF Ensure, storeVars
    <2> QED
      BY <1>4, <2>1 DEF PhaseInv, Phase, EngineReads, Open
  <1>10. CASE EnsureTask
    <2>1. /\ eng.pc = "create" /\ eng'.pc = "create" /\ eng'.dep = eng.dep /\ UNCHANGED deps
          /\ eng'.only_rollback = eng.only_rollback /\ eng'.todo \subseteq eng.todo
      BY <1>2, <1>10 DEF EnsureTask
    <2> QED
      BY <1>4, <2>1 DEF PhaseInv, Phase, EngineReads, Open
  <1>11. CASE PromotePending
    BY <1>2, <1>6, <1>11 DEF PromotePending, storeVars
  <1>12. CASE CheckGates
    BY <1>2, <1>6, <1>12 DEF CheckGates, storeVars
  <1>13. CASE Assign
    BY <1>2, <1>6, <1>13 DEF Assign
  <1>14. CASE CountFailures
    <2>1. /\ eng.pc = "promote" /\ ~eng.only_rollback
          /\ eng'.pc \in {"set_rolling_back", "halt", "stage"}
          /\ eng'.dep = eng.dep /\ UNCHANGED <<deps, tasks>>
          /\ eng'.only_rollback = eng.only_rollback
      BY <1>2, <1>14 DEF CountFailures, storeVars
    <2>2. Open(eng.dep)
      BY <2>1 DEF PhaseInv, Phase
    <2>3. RollbacksDone(eng.dep)
      BY <2>2 DEF PhaseInv, RollbacksLate, RollbacksDone, RollbackOf, Open
    <2>4. Phase'
      BY <2>1, <2>2 DEF Phase, Open
    <2> QED
      BY <1>4, <2>1, <2>3, <2>4 DEF EngineReads
  <1>15. CASE SetRollingBack
    <2>1. /\ eng.pc = "set_rolling_back" /\ eng'.pc = "collect" /\ eng'.dep = eng.dep
          /\ eng'.only_rollback = eng.only_rollback /\ UNCHANGED tasks
          /\ deps' = [deps EXCEPT ![eng.dep].status = "rolling_back"]
      BY <1>2, <1>15 DEF SetRollingBack, SetDepStatus
    <2>2. Open(eng.dep) /\ ~eng.only_rollback
      BY <2>1 DEF PhaseInv, Phase
    <2>3. /\ deps'[eng.dep].status = "rolling_back"
          /\ \A d \in Dep : d # eng.dep => deps'[d] = deps[d]
      BY <1>1, <2>1 DEF DepRow
    <2>4. Lifecycle
      BY <2>1, <2>2, <2>3 DEF Lifecycle
    <2> QED
      BY <2>1, <2>2, <2>3, <2>4 DEF Phase, EngineReads
  <1>16. CASE CollectRollbacks
    <2>1. /\ eng.pc = "collect" /\ eng'.pc \in {"halt", "rollback"} /\ eng'.dep = eng.dep
          /\ eng'.only_rollback = eng.only_rollback /\ UNCHANGED <<deps, tasks>>
      BY <1>2, <1>16 DEF CollectRollbacks, storeVars
    <2>2. deps[eng.dep].status = "rolling_back" /\ ~eng.only_rollback
      BY <2>1 DEF PhaseInv, Phase
    <2>3. RollbacksDone(eng.dep)
      BY <2>1 DEF PhaseInv, CollectFirst, RollbacksDone
    <2> QED
      BY <1>4, <2>1, <2>2, <2>3 DEF Phase, EngineReads
  <1>17. CASE CreateRollback
    <2>1. PICK t \in eng.todo, prev \in Version :
             \/ eng' = Idle(eng.queue)
             \/ eng' = [eng EXCEPT !.todo = @ \ {t}]
      BY <1>17 DEF CreateRollback, Return
    <2>2. UNCHANGED deps /\ eng.pc = "rollback"
      BY <1>17 DEF CreateRollback
    <2>3. CASE eng' = Idle(eng.queue)
      BY <1>3, <1>4, <1>5, <2>2, <2>3
    <2>4. CASE eng' = [eng EXCEPT !.todo = @ \ {t}]
      <3>1. eng'.pc = "rollback" /\ eng'.dep = eng.dep
            /\ eng'.only_rollback = eng.only_rollback
        BY <1>2, <2>2, <2>4
      <3> QED
        BY <1>4, <2>2, <3>1 DEF PhaseInv, Phase, EngineReads
    <2> QED
      BY <2>1, <2>3, <2>4
  <1>18. CASE Halt
    <2>1. /\ eng.pc = "halt" /\ eng'.pc = "idle"
          /\ deps' = [deps EXCEPT ![eng.dep].status = "halted"]
      BY <1>3, <1>18 DEF Halt, Return, SetDepStatus
    <2>2. Lifecycle
      BY <1>1, <2>1 DEF PhaseInv, Phase, Lifecycle, DepRow
    <2> QED
      BY <1>5, <2>1, <2>2
  <1>19. CASE StageRead
    <2>1. /\ eng.pc = "stage" /\ UNCHANGED deps
          /\ \/ eng' = [eng EXCEPT !.pc = IF eng.stage < MaxStage(eng.dep)
                                          THEN "advance" ELSE "complete"]
             \/ eng' = Idle(eng.queue)
      BY <1>19 DEF StageRead, Return, storeVars
    <2>2. CASE eng' = Idle(eng.queue)
      BY <1>3, <1>4, <1>5, <2>1, <2>2
    <2>3. CASE eng' = [eng EXCEPT !.pc = IF eng.stage < MaxStage(eng.dep)
                                         THEN "advance" ELSE "complete"]
      <3>1. /\ eng'.dep = eng.dep /\ eng'.stage = eng.stage
            /\ eng'.only_rollback = eng.only_rollback
            /\ \/ eng'.pc = "advance" /\ eng.stage < MaxStage(eng.dep)
               \/ eng'.pc = "complete" /\ ~(eng.stage < MaxStage(eng.dep))
        BY <1>2, <2>3
      <3>2. MaxStage(eng.dep) \in Nat
        BY <1>1, <2>1, StoreAssumption DEF MaxStage, StrategyType
      <3> QED
        BY <1>1, <1>4, <2>1, <3>1, <3>2 DEF PhaseInv, Phase, EngineReads, Open, MaxStage
    <2> QED
      BY <2>1, <2>2, <2>3
  <1>20. CASE Advance
    <2>1. /\ eng.pc = "advance" /\ eng'.pc = "idle"
          /\ deps' = [deps EXCEPT ![eng.dep].stage = eng.stage + 1]
      BY <1>3, <1>20 DEF Advance, Return, SetDepStage
    <2>2. Lifecycle
      BY <1>1, <2>1 DEF Lifecycle, DepRow
    <2> QED
      BY <1>5, <2>1, <2>2
  <1>21. CASE Complete
    <2>1. /\ eng.pc = "complete" /\ eng'.pc = "idle"
          /\ deps' = [deps EXCEPT ![eng.dep].status = "completed"]
      BY <1>3, <1>21 DEF Complete, Return, SetDepStatus
    <2>2. Open(eng.dep)
      BY <2>1 DEF PhaseInv, Phase
    <2>3. Lifecycle
      BY <1>1, <2>1, <2>2 DEF Lifecycle, DepRow
    <2> QED
      BY <1>5, <2>1, <2>3
  <1>22. CASE NormaliseRead
    <2>1. /\ eng.pc = "promote" /\ eng.only_rollback /\ eng'.pc = "normalise"
          /\ eng'.dep = eng.dep /\ eng'.only_rollback = eng.only_rollback /\ UNCHANGED deps
      BY <1>2, <1>22 DEF NormaliseRead, storeVars
    <2> QED
      BY <1>4, <2>1 DEF PhaseInv, Phase, EngineReads
  <1>23. CASE Normalise
    <2>1. /\ eng.pc = "normalise" /\ eng'.pc = "normalise"
          /\ eng'.dep = eng.dep /\ eng'.only_rollback = eng.only_rollback /\ UNCHANGED deps
      BY <1>2, <1>23 DEF Normalise
    <2> QED
      BY <1>4, <2>1 DEF PhaseInv, Phase, EngineReads
  <1>24. CASE FinishRead
    <2>1. /\ eng.pc = "normalise" /\ UNCHANGED <<deps, tasks>>
          /\ \/ eng' = Idle(eng.queue)
             \/ /\ eng' = [eng EXCEPT !.pc = "halt"]
                /\ Rollbacks(TasksOf(eng.dep)) =
                      WithStatus(Rollbacks(TasksOf(eng.dep)), {"rolled_back", "failed", "skipped"})
      BY <1>24 DEF FinishRead, Return, storeVars
    <2>2. CASE eng' = Idle(eng.queue)
      BY <1>3, <1>4, <1>5, <2>1, <2>2
    <2>3. CASE /\ eng' = [eng EXCEPT !.pc = "halt"]
               /\ Rollbacks(TasksOf(eng.dep)) =
                     WithStatus(Rollbacks(TasksOf(eng.dep)), {"rolled_back", "failed", "skipped"})
      <3>1. eng'.pc = "halt" /\ eng'.dep = eng.dep /\ eng'.only_rollback = eng.only_rollback
        BY <1>2, <2>3
      <3>2. RollbacksDone(eng.dep)
        BY <2>3 DEF RollbacksDone, RollbackOf, Rollbacks, TasksOf, WithStatus, Terminal
      <3>3. deps[eng.dep].status = "rolling_back"
        BY <2>1 DEF PhaseInv, Phase
      <3> QED
        BY <1>4, <2>1, <3>1, <3>2, <3>3 DEF Phase, EngineReads
    <2> QED
      BY <2>1, <2>2, <2>3
  <1> QED
    BY <1>7, <1>8, <1>9, <1>10, <1>11, <1>12, <1>13, <1>14, <1>15, <1>16, <1>17,
       <1>18, <1>19, <1>20, <1>21, <1>22, <1>23, <1>24 DEF EngineNext

LEMMA InitPhase == ASSUME Init PROVE PhaseInv
  <1>1. /\ eng.pc = "idle" /\ DOMAIN tasks = {}
        /\ \A d \in Dep : deps[d].status = "none" /\ deps[d].stage = 0
    BY DEF Init, EngineInit, Idle, StoreInit
  <1>2. \A d \in Dep : MaxStage(d) \in Nat
    BY StoreAssumption DEF MaxStage, StrategyType
  <1>3. StageBound
    BY <1>1, <1>2 DEF StageBound
  <1> QED
    BY <1>1, <1>3 DEF PhaseInv, Phase, RollbacksLate, CollectFirst, HaltRead, HaltedDone,
                      RollbacksDone

(* A row that is closed stays closed. *)
LEMMA TerminalStays ==
    ASSUME InStep, TypeInv, TypeInv', StatusInv, [Next]_vars, NEW k \in Rows,
           tasks[k].status \in Terminal
    PROVE  tasks'[k].status \in Terminal
  <1>1. k \in DOMAIN tasks' /\ StatusStep(k)
    BY StepMoves, StepStatus DEF Moves, KeepsRows
  <1>2. tasks[k].status \in TaskStatus /\ tasks'[k].status \in TaskStatus
    <2>1. tasks[k] \in TaskRow /\ tasks'[k] \in TaskRow
      BY <1>1 DEF TypeInv, TypeOK, StoreTypeOK
    <2> QED
      BY <2>1 DEF TaskRow
  <1>3. Rank(tasks[k].status) = 5 /\ Rank(tasks'[k].status) \in 0..5
    BY <1>2, RankOf
  <1> QED
    BY <1>1, <1>2, <1>3, RankOf DEF StatusStep, Terminal

(* The other threads leave the tick alone, or end it; the operator pauses  *)
(* and resumes.                                                            *)
LEMMA PhaseOfOthers ==
    ASSUME InOrder, TypeInv, PhaseInv, [Next]_vars, ~EngineMoves
    PROVE  /\ Phase' /\ Lifecycle
           /\ UNCHANGED eng \/ eng'.pc = "idle"
  <1>1. /\ eng.pc # "idle" => eng.dep \in Dep
        /\ deps \in [Dep -> DepRow] /\ \A d \in Dep : deps[d] \in DepRow
    BY DEF TypeInv, TypeOK, EngineBusy, StoreTypeOK
  <1>2. ASSUME UNCHANGED deps, UNCHANGED eng \/ eng'.pc = "idle"
        PROVE  /\ Phase' /\ Lifecycle
               /\ UNCHANGED eng \/ eng'.pc = "idle"
    BY <1>2 DEF PhaseInv, Phase, Lifecycle, Open
  <1>3. ASSUME UNCHANGED eng, Lifecycle,
               \A d \in Dep : deps'[d].status # deps[d].status =>
                  deps[d].status \in {"none", "running", "paused"}
                  /\ deps'[d].status \in {"running", "paused"}
        PROVE  Phase'
    <2> SUFFICES ASSUME eng.pc # "idle" PROVE Phase'
      BY <1>3 DEF Phase
    <2>1. eng.dep \in Dep
      BY <1>1
    <2>2. \/ deps'[eng.dep].status = deps[eng.dep].status
          \/ Open(eng.dep) /\ Open(eng.dep)'
          \/ deps[eng.dep].status = "none"
      BY <1>3, <2>1 DEF Open
    <2> QED
      BY <1>3, <2>2 DEF PhaseInv, Phase, Open
  <1>4. ASSUME NEW r \in Robot,
               HandlerMoves(r) \/ AgentMoves(r) \/ RegisterRobot(r) \/ HeartbeatStale(r)
        PROVE  UNCHANGED <<deps, eng>>
    BY <1>4 DEF HandlerMoves, Handle, Register, UpdateRobotState, TaskStatusWrite,
                VersionWrite, AgentMoves, AgentStep, Heartbeat, Poll, Preflight, Download,
                Apply, Verify, storeVars, RegisterRobot, HeartbeatStale
  <1>5. ASSUME NEW d \in Dep, CreateDeployment(d) \/ Pause(d) \/ Resume(d)
        PROVE  Phase' /\ Lifecycle /\ UNCHANGED eng
    <2>1. /\ UNCHANGED eng /\ \A e \in Dep : e # d => deps'[e] = deps[e]
          /\ \/ deps[d].status = "none" /\ deps'[d].status = "running"
             \/ deps[d].status = "running" /\ deps'[d].status = "paused"
             \/ deps[d].status = "paused" /\ deps'[d].status = "running"
      BY <1>1, <1>5 DEF CreateDeployment, Pause, Resume, SetDepStatus, InOrder, DepRow
    <2>2. Lifecycle
      BY <2>1 DEF Lifecycle
    <2> QED
      BY <1>3, <2>1, <2>2
  <1>6. CASE FaultMoves
    <2>1. UNCHANGED deps /\ (UNCHANGED eng \/ \E queue : eng' = Idle(queue))
      BY <1>6 DEF FaultMoves, LoseCall, Timeout, AgentCrash, AgentRestart,
                  UpdateRaises, ServerRestart, EngineError, Return
    <2> QED
      BY <1>2, <2>1 DEF Idle
  <1>7. CASE UNCHANGED vars
    BY <1>2, <1>7 DEF vars
  <1> QED
    BY <1>2, <1>4, <1>5, <1>6, <1>7 DEF Next, OperatorMoves

LEMMA StepPhase ==
    ASSUME InStep, InOrder, TypeInv, TypeInv', StatusInv, PhaseInv, [Next]_vars
    PROVE  PhaseInv' /\ Lifecycle
  <1>1. Moves
    BY StepMoves
  <1>2. /\ eng.pc # "idle" => eng.dep \in Dep
        /\ deps \in [Dep -> DepRow] /\ deps' \in [Dep -> DepRow]
        /\ \A k \in Rows : tasks[k] \in TaskRow
        /\ \A k \in DOMAIN tasks' : tasks'[k] \in TaskRow
        /\ eng.stage \in Nat
    BY DEF TypeInv, TypeOK, EngineBusy, StoreTypeOK, EngineTypeOK
  <1>3. /\ \A k \in Rows : tasks[k].dep \in Dep
        /\ \A k \in DOMAIN tasks' : tasks'[k].dep \in Dep
        /\ \A d \in Dep : deps[d].stage \in Nat
        /\ \A d \in Dep : MaxStage(d) \in Nat
    BY <1>2, StoreAssumption DEF TaskRow, DepRow, MaxStage, StrategyType
  <1>4. /\ Phase' /\ Lifecycle
        /\ \/ EngineReads
           \/ UNCHANGED eng \/ eng'.pc = "idle"
    BY EnginePhase, PhaseOfOthers DEF EngineMoves, TypeInv
  <1>5. \A k \in Rows : tasks[k].status \in Terminal => tasks'[k].status \in Terminal
    BY TerminalStays
  <1>6. StageBound'
    <2> SUFFICES ASSUME NEW d \in Dep
                 PROVE  /\ deps'[d].stage <= MaxStage(d)
                        /\ deps'[d].status = "none" => deps'[d].stage = 0
      BY DEF StageBound, MaxStage
    <2>1. deps[d].stage <= MaxStage(d) /\ (deps[d].status = "none" => deps[d].stage = 0)
      BY DEF PhaseInv, StageBound
    <2>2. deps'[d].status = "none" => deps[d].status = "none"
      BY <1>4 DEF Lifecycle
    <2>3. eng.pc = "advance" /\ d = eng.dep =>
             eng.stage < MaxStage(d) /\ deps[d].status # "none"
      BY DEF PhaseInv, Phase, Open
    <2> QED
      BY <1>1, <1>2, <1>3, <2>1, <2>2, <2>3 DEF Moves, DepsMove
  <1>7. \A k \in DOMAIN tasks' : tasks'[k].is_rollback =>
           \/ /\ k \in Rows /\ tasks[k].is_rollback /\ tasks[k].dep = tasks'[k].dep
           \/ /\ eng.pc = "rollback" /\ tasks'[k].dep = eng.dep /\ UNCHANGED deps
              /\ deps[eng.dep].status = "rolling_back"
    BY <1>1 DEF Moves, KeepsRows, NewRows, PhaseInv, Phase
  <1>8. RollbacksLate'
    <2> SUFFICES ASSUME NEW k \in DOMAIN tasks', tasks'[k].is_rollback
                 PROVE  deps'[tasks'[k].dep].status \in {"rolling_back", "halted"}
      BY DEF RollbacksLate
    <2>1. CASE k \in Rows /\ tasks[k].is_rollback /\ tasks[k].dep = tasks'[k].dep
      <3>1. deps[tasks[k].dep].status \in {"rolling_back", "halted"} /\ tasks[k].dep \in Dep
        BY <1>3, <2>1 DEF PhaseInv, RollbacksLate
      <3> QED
        BY <1>4, <2>1, <3>1 DEF Lifecycle, Open
    <2> QED
      BY <1>7, <2>1
  <1>9. ASSUME NEW d \in Dep, RollbacksDone(d), ~(eng.pc = "rollback" /\ d = eng.dep)
        PROVE  RollbacksDone(d)'
    BY <1>5, <1>7, <1>9 DEF RollbacksDone, RollbackOf
  <1>10. CollectFirst'
    <2> SUFFICES ASSUME eng'.pc = "collect", NEW k \in DOMAIN tasks',
                        tasks'[k].dep = eng'.dep, tasks'[k].is_rollback
                 PROVE  FALSE
      BY DEF CollectFirst, RollbackOf
    <2>1. CASE UNCHANGED eng
      BY <1>7, <2>1 DEF PhaseInv, CollectFirst, RollbackOf
    <2>2. CASE EngineReads
      <3>1. eng'.dep = eng.dep /\ eng.pc = "set_rolling_back" /\ UNCHANGED tasks
        BY <2>2 DEF EngineReads
      <3>2. Open(eng.dep)
        BY <3>1 DEF PhaseInv, Phase
      <3> QED
        BY <3>1, <3>2 DEF PhaseInv, RollbacksLate, Open
    <2> QED
      BY <1>4, <2>1, <2>2
  <1>11. HaltRead'
    <2> SUFFICES ASSUME eng'.pc = "halt" PROVE RollbacksDone(eng.dep)'
      BY DEF HaltRead
    <2>1. PICK d \in Dep : d = eng'.dep
      BY DEF TypeInv, EngineBusy
    <2>2. RollbacksDone(d)'
      <3>1. CASE UNCHANGED eng
        BY <1>9, <2>1, <3>1 DEF PhaseInv, HaltRead
      <3>2. CASE EngineReads
        BY <2>1, <3>2 DEF EngineReads, RollbacksDone, RollbackOf
      <3> QED
        BY <1>4, <3>1, <3>2
    <2> QED
      BY <2>1, <2>2 DEF RollbacksDone, RollbackOf
  <1>12. HaltedDone'
    <2> SUFFICES ASSUME NEW d \in Dep, deps'[d].status = "halted"
                 PROVE  RollbacksDone(d)'
      BY DEF HaltedDone
    <2>1. CASE deps[d].status = "halted"
      <3>1. ~(eng.pc = "rollback" /\ d = eng.dep)
        BY <2>1 DEF PhaseInv, Phase
      <3> QED
        BY <1>9, <2>1, <3>1 DEF PhaseInv, HaltedDone
    <2>2. CASE deps[d].status # "halted"
      <3>1. d = eng.dep /\ eng.pc = "halt"
        BY <1>4, <2>2 DEF Lifecycle
      <3> QED
        BY <1>9, <3>1 DEF PhaseInv, HaltRead
    <2> QED
      BY <2>1, <2>2
  <1> QED
    BY <1>4, <1>6, <1>8, <1>10, <1>11, <1>12 DEF PhaseInv

LEMMA PhaseCorrect == ASSUME InStep, InOrder PROVE Spec => []PhaseInv
  <1>1. Init => PhaseInv
    BY InitPhase
  <1>2. TypeInv /\ TypeInv' /\ StatusInv /\ PhaseInv /\ [Next]_vars => PhaseInv'
    BY StepPhase
  <1> QED
    BY InitType, StepType, StatusCorrect, <1>1, <1>2, PTL DEF Spec

(* A halted deployment has no rollback task still to be done, if the       *)
(* operator pauses what runs and resumes what is paused: resuming a        *)
(* rollback that was paused is what breaks it.                             *)
THEOREM HaltedRollbacksDoneHolds ==
    ASSUME InStep, InOrder
    PROVE  Spec => []HaltedRollbacksDone
  <1>1. PhaseInv => HaltedRollbacksDone
    BY DEF PhaseInv, HaltedDone, RollbacksDone, RollbackOf, HaltedRollbacksDone,
           Rollbacks, TasksOf, WithStatus
  <1> QED
    BY PhaseCorrect, <1>1, PTL
-----------------------------------------------------------------------------
(* The refinement of module Campaign.                                      *)

(* Nobody pauses or joins: what module Campaign leaves out.                *)
Undisturbed == Joiners = {} /\ PauseFrom = {} /\ ResumeFrom \subseteq {"paused"}

NeverPaused == \A d \in Dep : deps[d].status # "paused"

HasForward(d, r) == \E k \in Rows : Concerns(k, d, r) /\ ~tasks[k].is_rollback

(* Once the tick is past the creation of tasks, the whole wave of its      *)
(* stage has been offered the release.                                     *)
AllOffered ==
    (eng.pc \in {"create", "promote", "assign", "stage", "advance", "complete"}
       /\ ~eng.only_rollback) =>
       \A r \in Wave(eng.dep, eng.stage) :
          \/ HasForward(eng.dep, r)
          \/ eng.pc = "create" /\ \E t \in eng.todo : t.robot = r

OfferedInv == NeverPaused /\ AllOffered

LEMMA StepNeverPaused ==
    ASSUME Undisturbed, TypeInv, NeverPaused, [Next]_vars, Lifecycle
    PROVE  NeverPaused'
  <1> SUFFICES ASSUME NEW d \in Dep, deps'[d].status = "paused" PROVE FALSE
    BY DEF NeverPaused
  <1>1. deps[d].status = "running" /\ deps'[d].status # deps[d].status
    BY DEF NeverPaused, Lifecycle
  <1>2. deps \in [Dep -> DepRow]
    BY DEF TypeInv, TypeOK, StoreTypeOK
  <1>3. CASE EngineMoves
    BY <1>1, <1>2, <1>3
       DEF EngineMoves, EngineNext, Tick, Load, Ensure, EnsureTask, PromotePending, CheckGates,
           Assign, CountFailures, SetRollingBack, CollectRollbacks, CreateRollback, Halt,
           StageRead, Advance, Complete, NormaliseRead, Normalise, FinishRead, storeVars,
           SetDepStatus, SetDepStage, DepRow
  <1>4. CASE OperatorMoves
    BY <1>1, <1>2, <1>4
       DEF OperatorMoves, CreateDeployment, Pause, Resume, SetDepStatus, Undisturbed, DepRow
  <1>5. CASE UNCHANGED deps
    BY <1>1, <1>5
  <1>6. ASSUME NEW r \in Robot,
               HandlerMoves(r) \/ AgentMoves(r) \/ RegisterRobot(r) \/ HeartbeatStale(r)
        PROVE  UNCHANGED deps
    BY <1>6 DEF HandlerMoves, Handle, Register, UpdateRobotState, TaskStatusWrite,
                VersionWrite, AgentMoves, AgentStep, Heartbeat, Poll, Preflight, Download,
                Apply, Verify, storeVars, RegisterRobot, HeartbeatStale
  <1>7. CASE FaultMoves
    BY <1>5, <1>7 DEF FaultMoves, LoseCall, Timeout, AgentCrash, AgentRestart, UpdateRaises,
                      ServerRestart, EngineError
  <1> QED
    BY <1>3, <1>4, <1>5, <1>6, <1>7 DEF Next, vars

LEMMA ForwardStays ==
    ASSUME KeepsRows, NEW d, NEW r, HasForward(d, r)
    PROVE  HasForward(d, r)'
  BY DEF KeepsRows, HasForward, Concerns

(* The same tick, somewhat further. *)
LEMMA OfferedOn ==
    ASSUME AllOffered, KeepsRows,
           \/ eng'.pc \notin {"create", "promote", "assign", "stage", "advance", "complete"}
           \/ eng'.only_rollback
           \/ /\ eng.pc \in {"create", "promote", "assign", "stage", "advance", "complete"}
              /\ eng'.only_rollback = eng.only_rollback
              /\ eng'.dep = eng.dep /\ eng'.stage = eng.stage
              /\ \/ UNCHANGED eng.todo /\ UNCHANGED eng.pc
                 \/ eng.pc = "create" /\ eng.todo = {}
                 \/ eng.pc # "create" /\ eng'.pc # "create"
    PROVE  AllOffered'
  BY ForwardStays DEF AllOffered, Wave, Prefix, Target

LEMMA EngineOffered ==
    ASSUME Undisturbed, TypeOK, EngineBusy, WaveInv, PhaseInv, AllOffered, KeepsRows, EngineNext
    PROVE  AllOffered'
  <1>1. /\ StoreTypeOK /\ eng.todo \subseteq Seen /\ eng.stage \in Nat
        /\ eng.only_rollback \in BOOLEAN
        /\ eng.pc # "idle" => eng.dep \in Dep
    BY DEF TypeOK, EngineTypeOK, EngineBusy
  <1>2. eng = [pc |-> eng.pc, queue |-> eng.queue, dep |-> eng.dep, stage |-> eng.stage,
               only_rollback |-> eng.only_rollback, rows |-> eng.rows,
               todo |-> eng.todo, gate |-> eng.gate]
    BY DEF TypeOK, EngineTypeOK
  <1>3. \A q : Idle(q).pc = "idle"
    BY DEF Idle
  <1>4. CASE Tick
    <2>1. eng'.pc = "idle"
      BY <1>2, <1>4 DEF Tick
    <2> QED
      BY <2>1, OfferedOn
  <1>5. CASE Load
    <2>1. PICK d \in eng.queue :
             LET rest == eng.queue \ {d}
                 work == [Idle(rest) EXCEPT !.dep = d, !.stage = deps[d].stage]
             IN  \/ eng' = [work EXCEPT !.pc = "ensure"]
                 \/ eng' = [work EXCEPT !.pc = "create", !.only_rollback = TRUE]
                 \/ eng' = Idle(rest)
      BY <1>5 DEF Load
    <2>2. eng'.pc \in {"ensure", "idle"} \/ eng'.only_rollback
      <3> DEFINE rest == eng.queue \ {d}
                 work == [Idle(rest) EXCEPT !.dep = d, !.stage = deps[d].stage]
      <3>1. CASE eng' = [work EXCEPT !.pc = "ensure"]
        BY <3>1 DEF Idle
      <3>2. CASE eng' = [work EXCEPT !.pc = "create", !.only_rollback = TRUE]
        BY <3>2 DEF Idle
      <3>3. CASE eng' = Idle(rest)
        BY <3>3 DEF Idle
      <3> QED
        BY <2>1, <3>1, <3>2, <3>3
    <2> QED
      BY <2>2, OfferedOn
  <1>6. CASE Ensure
    <2> DEFINE targets == Prefix(Fleet, Target(eng.dep, eng.stage, Cardinality(Fleet)))
               todo == {[robot |-> r, version |-> robots[r].version] :
                           r \in {q \in targets : RobotTasks(eng.dep, q) = {}}}
    <2>1. /\ eng.pc = "ensure" /\ eng'.pc = "create" /\ eng'.todo = todo /\ UNCHANGED tasks
          /\ eng'.dep = eng.dep /\ eng'.stage = eng.stage
      BY <1>2, <1>6 DEF Ensure, storeVars
    <2>2. targets = Wave(eng.dep, eng.stage)
      <3>1. Fleet = Robot
        BY FleetIsRobot DEF WaveInv, Undisturbed
      <3> QED
        BY <3>1 DEF Wave
    <2>3. Open(eng.dep)
      BY <2>1 DEF PhaseInv, Phase
    <2>4. ASSUME NEW r \in Wave(eng.dep, eng.stage), RobotTasks(eng.dep, r) # {}
          PROVE  HasForward(eng.dep, r)
      <3>1. PICK k \in Rows : Concerns(k, eng.dep, r)
        BY <2>4 DEF RobotTasks, TasksOf, Concerns
      <3>2. ~tasks[k].is_rollback
        BY <2>3, <3>1 DEF PhaseInv, RollbacksLate, Open, Concerns
      <3> QED
        BY <3>1, <3>2 DEF HasForward
    <2>5. ASSUME NEW r \in Wave(eng.dep, eng.stage), RobotTasks(eng.dep, r) = {}
          PROVE  \E t \in todo : t.robot = r
      <3> DEFINE t == [robot |-> r, version |-> robots[r].version]
      <3>1. t \in todo /\ t.robot = r
        BY <2>2, <2>5
      <3> QED
        BY <3>1
    <2> HIDE DEF targets, todo
    <2>6. \A r \in Wave(eng.dep, eng.stage) :
             HasForward(eng.dep, r) \/ \E t \in eng'.todo : t.robot = r
      BY <2>1, <2>4, <2>5
    <2> QED
      BY <2>1, <2>6, ForwardStays DEF AllOffered, Wave, Prefix, Target
  <1>7. CASE EnsureTask
    <2>1. PICK t \in eng.todo :
             /\ CreateTask([dep |-> eng.dep, robot |-> t.robot, is_rollback |-> FALSE,
                            stage |-> eng.stage,
                            status |-> IF t.robot \in Compat[eng.dep]
                                       THEN "pending" ELSE "skipped",
                            from_version |-> t.version,
                            to_version |-> Release[eng.dep]])
             /\ eng' = [eng EXCEPT !.todo = @ \ {t}]
      BY <1>7 DEF EnsureTask
    <2>2. /\ eng.pc = "create" /\ eng'.pc = "create" /\ eng'.todo = eng.todo \ {t}
          /\ eng'.dep = eng.dep /\ eng'.stage = eng.stage
          /\ eng'.only_rollback = eng.only_rollback
      BY <1>2, <1>7, <2>1 DEF EnsureTask
    <2>3. HasForward(eng.dep, t.robot)'
      <3> DEFINE row == [dep |-> eng.dep, robot |-> t.robot, is_rollback |-> FALSE,
                         stage |-> eng.stage,
                         status |-> IF t.robot \in Compat[eng.dep]
                                    THEN "pending" ELSE "skipped",
                         from_version |-> t.version,
                         to_version |-> Release[eng.dep]]
      <3>1. row \in TaskRow /\ row.dep = eng.dep /\ row.robot = t.robot /\ ~row.is_rollback
        BY <2>2, NewRowTyped
      <3>2. CreateTask(row)
        BY <2>1
      <3> HIDE DEF row
      <3>3. PICK n : DOMAIN tasks' = Rows \cup {n} /\ tasks'[n] = row
        BY <1>1, <3>1, <3>2, CreateTaskType
      <3> QED
        BY <3>1, <3>3, <2>2 DEF HasForward, Concerns
    <2> QED
      BY <2>2, <2>3, ForwardStays DEF AllOffered, Wave, Prefix, Target
  <1>8. CASE PromotePending
    BY <1>2, <1>8, OfferedOn DEF PromotePending
  <1>9. CASE CheckGates
    BY <1>2, <1>9, OfferedOn DEF CheckGates
  <1>10. CASE Assign
    BY <1>2, <1>10, OfferedOn DEF Assign
  <1>11. CASE CountFailures
    <2>1. /\ eng.pc = "promote" /\ eng'.pc \in {"set_rolling_back", "halt", "stage"}
          /\ eng'.dep = eng.dep /\ eng'.stage = eng.stage
          /\ eng'.only_rollback = eng.only_rollback
      BY <1>2, <1>11 DEF CountFailures
    <2> QED
      BY <2>1, OfferedOn
  <1>12. CASE SetRollingBack \/ NormaliseRead \/ Normalise
    <2>1. eng'.pc \in {"collect", "normalise"}
      BY <1>2, <1>12 DEF SetRollingBack, NormaliseRead, Normalise
    <2> QED
      BY <2>1, OfferedOn
  <1>13. CASE CollectRollbacks
    <2>1. eng'.pc \in {"halt", "rollback"}
      BY <1>2, <1>13 DEF CollectRollbacks
    <2> QED
      BY <2>1, OfferedOn
  <1>14. CASE CreateRollback
    <2>1. PICK t \in eng.todo, prev \in Version :
             \/ eng' = Idle(eng.queue)
             \/ eng' = [eng EXCEPT !.todo = @ \ {t}]
      BY <1>14 DEF CreateRollback, Return
    <2>2. eng'.pc \in {"idle", "rollback"}
      BY <1>2, <1>3, <1>14, <2>1 DEF CreateRollback
    <2> QED
      BY <2>2, OfferedOn
  <1>15. CASE Halt \/ Advance \/ Complete
    <2>1. eng'.pc = "idle"
      BY <1>3, <1>15 DEF Halt, Advance, Complete, Return
    <2> QED
      BY <2>1, OfferedOn
  <1>16. CASE FinishRead
    <2>1. eng' = Idle(eng.queue) \/ eng' = [eng EXCEPT !.pc = "halt"]
      BY <1>16 DEF FinishRead, Return
    <2>2. eng'.pc \in {"idle", "halt"}
      BY <1>2, <1>3, <2>1
    <2> QED
      BY <2>2, OfferedOn
  <1>17. CASE StageRead
    <2>1. eng.pc = "stage"
          /\ \/ eng' = Idle(eng.queue)
             \/ eng' = [eng EXCEPT !.pc = IF eng.stage < MaxStage(eng.dep)
                                          THEN "advance" ELSE "complete"]
      BY <1>17 DEF StageRead, Return
    <2>2. \/ eng'.pc = "idle"
          \/ /\ eng'.pc \in {"advance", "complete"} /\ eng'.dep = eng.dep
             /\ eng'.stage = eng.stage /\ eng'.only_rollback = eng.only_rollback
      BY <1>2, <1>3, <2>1
    <2> QED
      BY <2>1, <2>2, OfferedOn
  <1> QED
    BY <1>4, <1>5, <1>6, <1>7, <1>8, <1>9, <1>10, <1>11, <1>12, <1>13, <1>14, <1>15,
       <1>16, <1>17 DEF EngineNext

LEMMA StepOffered ==
    ASSUME InStep, Undisturbed, TypeInv, TypeInv', WaveInv, StatusInv, PhaseInv, OfferedInv,
           [Next]_vars
    PROVE  OfferedInv'
  <1>1. InOrder
    BY DEF Undisturbed, InOrder
  <1>2. Lifecycle /\ KeepsRows
    BY <1>1, StepPhase, StepMoves DEF Moves
  <1>3. NeverPaused'
    BY <1>2, StepNeverPaused DEF OfferedInv
  <1>4. CASE EngineMoves
    BY <1>2, <1>3, <1>4, EngineOffered DEF EngineMoves, OfferedInv, TypeInv
  <1>5. CASE ~EngineMoves
    <2>1. UNCHANGED eng \/ eng'.pc = "idle"
      BY <1>1, <1>5, PhaseOfOthers
    <2> QED
      BY <1>2, <1>3, <2>1, OfferedOn DEF OfferedInv
  <1> QED
    BY <1>4, <1>5

LEMMA OfferedCorrect == ASSUME InStep, Undisturbed PROVE Spec => []OfferedInv
  <1>1. InOrder
    BY DEF Undisturbed, InOrder
  <1>2. Init => OfferedInv
    BY DEF Init, EngineInit, Idle, StoreInit, OfferedInv, NeverPaused, AllOffered
  <1>3. TypeInv /\ TypeInv' /\ WaveInv /\ StatusInv /\ PhaseInv /\ OfferedInv /\ [Next]_vars
           => OfferedInv'
    BY StepOffered
  <1>4. Spec => []PhaseInv
    BY <1>1, PhaseCorrect
  <1> QED
    BY InitType, StepType, WaveCorrect, StatusCorrect, <1>2, <1>3, <1>4, PTL DEF Spec

-----------------------------------------------------------------------------
(* The state of module Campaign, and one step of the program as a step or  *)
(* a stutter of it.                                                        *)
Offered == {tasks[k].robot : k \in Forward(TasksOf(1))}
Settled == {tasks[k].robot : k \in WithStatus(Forward(TasksOf(1)), Terminal)}

LEMMA TaskCreated ==
    ASSUME StoreTypeOK, NEW row \in TaskRow, CreateTask(row)
    PROVE  IF row.dep = 1 /\ ~row.is_rollback
           THEN /\ Offered' = Offered \cup {row.robot}
                /\ Settled' \in {Settled, Settled \cup {row.robot}}
           ELSE UNCHANGED <<Offered, Settled>>
  <1>1. PICK n : /\ DOMAIN tasks' = Rows \cup {n} /\ n \notin Rows
                 /\ tasks'[n] = row
                 /\ \A k \in Rows : tasks'[k] = tasks[k]
    BY CreateTaskType
  <1>2. CASE row.dep = 1 /\ ~row.is_rollback
    <2>1. Forward(TasksOf(1))' = Forward(TasksOf(1)) \cup {n}
      BY <1>1, <1>2 DEF Forward, TasksOf
    <2>2. Offered' = Offered \cup {row.robot}
      BY <1>1, <2>1 DEF Offered, Forward, TasksOf
    <2>3. CASE row.status \in Terminal
      <3>1. WithStatus(Forward(TasksOf(1)), Terminal)' =
               WithStatus(Forward(TasksOf(1)), Terminal) \cup {n}
        BY <1>1, <2>1, <2>3 DEF WithStatus, Forward, TasksOf
      <3> QED
        BY <1>1, <1>2, <2>2, <3>1 DEF Settled, WithStatus, Forward, TasksOf
    <2>4. CASE row.status \notin Terminal
      <3>1. WithStatus(Forward(TasksOf(1)), Terminal)' = WithStatus(Forward(TasksOf(1)), Terminal)
        BY <1>1, <2>1, <2>4 DEF WithStatus, Forward, TasksOf
      <3> QED
        BY <1>1, <1>2, <2>2, <3>1 DEF Settled, WithStatus, Forward, TasksOf
    <2> QED
      BY <2>3, <2>4
  <1>3. CASE ~(row.dep = 1 /\ ~row.is_rollback)
    <2>1. Forward(TasksOf(1))' = Forward(TasksOf(1))
      BY <1>1, <1>3 DEF Forward, TasksOf
    <2>2. WithStatus(Forward(TasksOf(1)), Terminal)' = WithStatus(Forward(TasksOf(1)), Terminal)
      BY <1>1, <2>1 DEF WithStatus, Forward, TasksOf
    <2> QED
      BY <1>1, <1>3, <2>1, <2>2 DEF Offered, Settled, WithStatus, Forward, TasksOf
  <1> QED
    BY <1>2, <1>3

LEMMA TaskWritten ==
    ASSUME StoreTypeOK, NEW k \in Nat, NEW st \in TaskStatus, SetTaskStatus(k, st), ClosedStay
    PROVE  /\ Offered' = Offered
           /\ \/ Settled' = Settled
              \/ \E r \in Offered \ Settled : Settled' = Settled \cup {r}
  <1>1. SameRows
    BY StatusWriteSameRows
  <1>2. \A j \in Rows : j # k => tasks'[j].status = tasks[j].status
    <2>1. \A j \in DOMAIN tasks : j # k => tasks'[j] = tasks[j]
      BY SetTaskStatusType
    <2> QED
      BY <2>1
  <1>3. Forward(TasksOf(1))' = Forward(TasksOf(1))
    BY <1>1 DEF SameRows, Forward, TasksOf
  <1>4. Offered' = Offered
    BY <1>1, <1>3 DEF Offered, SameRows, Forward, TasksOf
  <1> DEFINE closed == WithStatus(Forward(TasksOf(1)), Terminal)
  <1>5. closed \subseteq closed' /\ closed' \subseteq closed \cup {k}
    BY <1>1, <1>2, <1>3 DEF WithStatus, SameRows, Forward, TasksOf, ClosedStay
  <1>6. \A j \in closed' : tasks'[j].robot = tasks[j].robot
    BY <1>1 DEF SameRows, WithStatus, Forward, TasksOf
  <1>7. CASE closed' = closed
    BY <1>4, <1>6, <1>7 DEF Settled
  <1>8. CASE closed' = closed \cup {k} /\ k \notin closed
    <2>1. k \in Forward(TasksOf(1))
      BY <1>3, <1>8 DEF WithStatus
    <2>2. tasks[k].robot \in Offered
      BY <2>1 DEF Offered
    <2>3. Settled' = Settled \cup {tasks[k].robot}
      BY <1>6, <1>8 DEF Settled
    <2> QED
      BY <1>4, <2>2, <2>3
  <1> QED
    BY <1>5, <1>7, <1>8

LEMMA PromiseRows ==
    ASSUME InStep, 1 \in Dep, TypeInv, TypeInv', WaveInv, RowInv, StatusInv, PhaseInv,
           OfferedInv, [Next]_vars, Undisturbed, UNCHANGED deps
    PROVE  Promise!Next \/ UNCHANGED Promise!campaignVars
  <1>1. ClosedStay
    BY ClosedRowsStay
  <1>2. UNCHANGED <<deps[1].status, deps[1].stage>>
    OBVIOUS
  <1>3. StoreTypeOK
    BY DEF TypeInv, TypeOK
  <1>4. ASSUME UNCHANGED <<Offered, Settled>> PROVE UNCHANGED Promise!campaignVars
    BY <1>2, <1>4 DEF Promise!campaignVars, Offered, Settled
  <1>5. CASE UNCHANGED tasks
    BY <1>4, <1>5 DEF Offered, Settled, Forward, TasksOf, WithStatus
  <1>6. CASE EnsureTask
    <2> DEFINE row(t) == [dep |-> eng.dep, robot |-> t.robot, is_rollback |-> FALSE,
                          stage |-> eng.stage,
                          status |-> IF t.robot \in Compat[eng.dep]
                                     THEN "pending" ELSE "skipped",
                          from_version |-> t.version,
                          to_version |-> Release[eng.dep]]
    <2>1. PICK t \in eng.todo : CreateTask(row(t))
      BY <1>6 DEF EnsureTask
    <2>2. eng.pc = "create"
      BY <1>6 DEF EnsureTask
    <2>3. row(t) \in TaskRow
      BY <2>2, NewRowTyped DEF TypeInv
    <2>4. row(t).dep = eng.dep /\ row(t).robot = t.robot /\ ~row(t).is_rollback
      OBVIOUS
    <2> HIDE DEF row
    <2>5. CASE eng.dep # 1
      <3>1. UNCHANGED <<Offered, Settled>>
        BY <1>3, <2>1, <2>3, <2>4, <2>5, TaskCreated
      <3> QED
        BY <1>4, <3>1
    <2>6. CASE eng.dep = 1
      <3>1. /\ Offered' = Offered \cup {t.robot}
            /\ Settled' \in {Settled, Settled \cup {t.robot}}
        BY <1>3, <2>1, <2>3, <2>4, <2>6, TaskCreated
      <3>2. t.robot \in Wave(1, deps[1].stage)
        BY <2>2, <2>6 DEF WaveInv, TodoInWave, Within, SnapshotStage, Undisturbed
      <3>3. deps[1].status = "running"
        <4>1. ~eng.only_rollback
          BY <2>1, <2>2 DEF PhaseInv, Phase, TypeInv, TypeOK, EngineTypeOK
        <4> QED
          BY <2>2, <2>6, <4>1 DEF PhaseInv, Phase, Open, OfferedInv, NeverPaused
      <3>4. t.robot \notin Offered
        BY <2>2, <2>6 DEF RowInv, NewForward, Concerns, Offered, Forward, TasksOf
      <3>5. Promise!Offer
        BY <1>2, <3>1, <3>2, <3>3, <3>4 DEF Promise!Offer, Offered, Settled
      <3> QED
        BY <3>5 DEF Promise!Next
    <2> QED
      BY <2>5, <2>6
  <1>7. CASE CreateRollback
    <2>1. PICK t \in eng.todo : \E prev \in Version :
             CreateTask([dep |-> eng.dep, robot |-> t.robot, is_rollback |-> TRUE,
                         stage |-> eng.stage, status |-> "pending",
                         from_version |-> Release[eng.dep], to_version |-> prev])
      BY <1>7 DEF CreateRollback
    <2>2. PICK prev \in Version :
             CreateTask([dep |-> eng.dep, robot |-> t.robot, is_rollback |-> TRUE,
                         stage |-> eng.stage, status |-> "pending",
                         from_version |-> Release[eng.dep], to_version |-> prev])
      BY <2>1
    <2> DEFINE row == [dep |-> eng.dep, robot |-> t.robot, is_rollback |-> TRUE,
                       stage |-> eng.stage, status |-> "pending",
                       from_version |-> Release[eng.dep], to_version |-> prev]
    <2>3. row \in TaskRow /\ row.is_rollback
      BY <1>7, NewRowTyped DEF CreateRollback, TypeInv
    <2>4. CreateTask(row)
      BY <2>2
    <2> HIDE DEF row
    <2>5. UNCHANGED <<Offered, Settled>>
      BY <1>3, <2>3, <2>4, TaskCreated
    <2> QED
      BY <1>4, <2>5
  <1>8. ASSUME NEW k \in Nat, NEW st \in TaskStatus, SetTaskStatus(k, st)
        PROVE  Promise!Next \/ UNCHANGED Promise!campaignVars
    <2>1. /\ Offered' = Offered
          /\ \/ Settled' = Settled
             \/ \E r \in Offered \ Settled : Settled' = Settled \cup {r}
      BY <1>1, <1>3, <1>8, TaskWritten
    <2>2. ASSUME NEW r \in Offered \ Settled, Settled' = Settled \cup {r} PROVE Promise!Settle
      BY <1>2, <2>1, <2>2 DEF Promise!Settle, Offered, Settled
    <2> QED
      BY <1>4, <2>1, <2>2 DEF Promise!Next
  <1> QED
    BY <1>5, <1>6, <1>7, <1>8, OneTable

(* What the tick has read when it moves the deployment on: everything      *)
(* offered is settled, and the whole wave has been offered.                *)
LEMMA WaveIsSettled ==
    ASSUME TypeInv, WaveInv, PhaseInv, SettleInv, OfferedInv, eng.dep = 1,
           eng.pc \in {"advance", "complete"}
    PROVE  Settled = Offered /\ Wave(1, deps[1].stage) \subseteq Offered
  <1>1. /\ eng.stage = deps[1].stage /\ ~eng.only_rollback
    BY DEF WaveInv, SnapshotStage, PhaseInv, Phase
  <1>2. ASSUME NEW k \in Forward(TasksOf(1)) PROVE tasks[k].status \in Terminal
    <2>1. k \in Rows /\ tasks[k].dep = 1 /\ ~tasks[k].is_rollback
      BY <1>2 DEF Forward, TasksOf
    <2>2. tasks[k].stage \in Nat /\ deps[1].stage \in Nat /\ tasks[k].stage <= deps[1].stage
      <3>1. tasks[k] \in TaskRow /\ deps \in [Dep -> DepRow]
        BY <2>1 DEF TypeInv, TypeOK, StoreTypeOK
      <3>2. 1 \in Dep
        BY DEF TypeInv, EngineBusy
      <3> QED
        BY <2>1, <3>1, <3>2 DEF TaskRow, DepRow, WaveInv, RowsInWave
    <2>3. CASE tasks[k].stage < deps[1].stage
      BY <2>1, <2>3 DEF SettleInv, StageSettled, Forward
    <2>4. CASE tasks[k].stage = deps[1].stage
      BY <1>1, <2>1, <2>4 DEF SettleInv, ReadSettled
    <2> QED
      BY <2>2, <2>3, <2>4
  <1>3. Settled = Offered
    BY <1>2 DEF Settled, Offered, WithStatus
  <1>4. \A r \in Wave(1, deps[1].stage) : HasForward(1, r)
    BY <1>1 DEF OfferedInv, AllOffered
  <1> QED
    BY <1>3, <1>4 DEF Offered, HasForward, Concerns, Forward, TasksOf

(* A deployment stops only with a failure on record. *)
LEMMA FailedIsSettled ==
    ASSUME 1 \in Dep, TooManyFailures(1)
    PROVE  Settled # {}
  <1>1. Strategy[1].failure_threshold \in Nat
    BY StoreAssumption DEF StrategyType
  <1>2. Failures(1) # {}
    <2> SUFFICES ASSUME Failures(1) = {} PROVE FALSE
      OBVIOUS
    <2>1. Cardinality(Failures(1)) = 0
      BY FS_EmptySet
    <2> QED
      BY <1>1, <2>1 DEF TooManyFailures
  <1>3. PICK k : k \in Forward(TasksOf(1)) /\ tasks[k].status = "failed"
    BY <1>2 DEF Failures, WithStatus
  <1> QED
    BY <1>3 DEF Settled, WithStatus, Terminal

LEMMA PromiseDeps ==
    ASSUME InStep, 1 \in Dep, TypeInv, TypeInv', WaveInv, StatusInv, PhaseInv, SettleInv,
           OfferedInv, OfferedInv', [Next]_vars, Undisturbed, UNCHANGED tasks
    PROVE  Promise!Next \/ UNCHANGED Promise!campaignVars
  <1>1. Lifecycle /\ DepsMove
    BY StepPhase, StepMoves DEF Undisturbed, InOrder, Moves
  <1>2. UNCHANGED <<Offered, Settled>>
    BY DEF Offered, Settled, Forward, TasksOf, WithStatus
  <1>3. deps[1].status # "paused" /\ deps'[1].status # "paused"
    BY DEF OfferedInv, NeverPaused
  <1>4. deps[1].status = "none" => deps[1].stage = 0
    BY DEF PhaseInv, StageBound
  <1>5. eng.pc \in {"advance", "complete", "set_rolling_back"} /\ eng.dep = 1 =>
           deps[1].status = "running"
    BY <1>3 DEF PhaseInv, Phase, Open
  <1>6. CASE UNCHANGED <<deps[1].status, deps[1].stage>>
    BY <1>2, <1>6 DEF Promise!campaignVars, Offered, Settled
  <1>7. CASE deps'[1].stage # deps[1].stage
    <2>1. /\ eng.pc = "advance" /\ eng.dep = 1 /\ deps'[1].stage = eng.stage + 1
      BY <1>1, <1>4, <1>7 DEF DepsMove
    <2>2. deps'[1].status = deps[1].status /\ deps[1].status = "running"
      BY <1>1, <1>3, <1>5, <2>1 DEF Lifecycle
    <2>3. eng.stage = deps[1].stage /\ deps[1].stage < MaxStage(1)
      BY <2>1 DEF WaveInv, SnapshotStage, PhaseInv, Phase
    <2>4. Settled = Offered /\ Wave(1, deps[1].stage) \subseteq Offered
      BY <2>1, WaveIsSettled
    <2>5. Promise!Advance
      BY <1>2, <2>1, <2>2, <2>3, <2>4 DEF Promise!Advance, Offered, Settled
    <2> QED
      BY <2>5 DEF Promise!Next
  <1>8. CASE deps'[1].status # deps[1].status /\ deps'[1].stage = deps[1].stage
    <2>1. CASE deps[1].status = "none" /\ deps'[1].status = "running"
      <3>1. Promise!Start
        BY <1>2, <1>8, <2>1 DEF Promise!Start, Offered, Settled
      <3> QED
        BY <3>1 DEF Promise!Next
    <2>2. CASE eng.dep = 1 /\ eng.pc = "set_rolling_back" /\ deps'[1].status = "rolling_back"
      <3>1. Settled # {}
        BY <2>2, FailedIsSettled DEF SettleInv, ReadFailures, Stopping
      <3>2. Promise!RollBack
        BY <1>2, <1>5, <1>8, <2>2, <3>1 DEF Promise!RollBack, Offered, Settled
      <3> QED
        BY <3>2 DEF Promise!Next
    <2>3. CASE eng.dep = 1 /\ eng.pc = "halt" /\ deps'[1].status = "halted"
      <3>1. Settled # {}
        BY <2>3, FailedIsSettled DEF SettleInv, ReadFailures, Stopping
      <3>2. deps[1].status \in {"running", "rolling_back"}
        BY <1>3, <2>3 DEF PhaseInv, Phase, Open
      <3>3. Promise!Halt
        BY <1>2, <1>8, <2>3, <3>1, <3>2 DEF Promise!Halt, Offered, Settled
      <3> QED
        BY <3>3 DEF Promise!Next
    <2>4. CASE eng.dep = 1 /\ eng.pc = "complete" /\ deps'[1].status = "completed"
      <3>1. Settled = Offered /\ Wave(1, deps[1].stage) \subseteq Offered
        BY <2>4, WaveIsSettled
      <3>2. deps[1].stage = MaxStage(1)
        <4>1. eng.stage = deps[1].stage /\ eng.stage >= MaxStage(1)
              /\ deps[1].stage <= MaxStage(1)
          BY <2>4 DEF WaveInv, SnapshotStage, PhaseInv, Phase, StageBound
        <4>2. deps[1].stage \in Nat /\ MaxStage(1) \in Nat
          <5>1. deps \in [Dep -> DepRow]
            BY DEF TypeInv, TypeOK, StoreTypeOK
          <5> QED
            BY <5>1, StoreAssumption DEF DepRow, MaxStage, StrategyType
        <4> QED
          BY <4>1, <4>2
      <3>3. Promise!Complete
        BY <1>2, <1>5, <1>8, <2>4, <3>1, <3>2 DEF Promise!Complete, Offered, Settled
      <3> QED
        BY <3>3 DEF Promise!Next
    <2> QED
      BY <1>1, <1>3, <1>8, <2>1, <2>2, <2>3, <2>4 DEF Lifecycle
  <1> QED
    BY <1>6, <1>7, <1>8

LEMMA PromiseInit == ASSUME Init, 1 \in Dep PROVE Promise!Init
  <1>1. DOMAIN tasks = {} /\ deps[1].status = "none" /\ deps[1].stage = 0
    BY DEF Init, StoreInit
  <1> QED
    BY <1>1 DEF Promise!Init, Forward, TasksOf, WithStatus

LEMMA PromiseStep ==
    ASSUME InStep, Undisturbed, 1 \in Dep, TypeInv, TypeInv', WaveInv, RowInv, StatusInv,
           PhaseInv, SettleInv, OfferedInv, OfferedInv', [Next]_vars
    PROVE  [Promise!Next]_(Promise!campaignVars)
  <1>1. CASE UNCHANGED deps
    BY <1>1, PromiseRows DEF Promise!campaignVars
  <1>2. CASE UNCHANGED tasks
    BY <1>2, PromiseDeps DEF Promise!campaignVars
  <1> QED
    BY <1>1, <1>2, OneTable

(* The first deployment does what module Campaign promises of it, step by  *)
(* step: the release is offered stage by stage, a stage opens when all     *)
(* that was offered is settled, and what stopped stops offering.           *)
THEOREM KeepsPromiseHolds ==
    ASSUME InStep, Undisturbed, 1 \in Dep
    PROVE  Spec => KeepsPromise
  <1>1. InOrder
    BY DEF Undisturbed, InOrder
  <1>2. Init => Promise!Init
    BY PromiseInit
  <1>3. TypeInv /\ TypeInv' /\ WaveInv /\ RowInv /\ StatusInv /\ PhaseInv /\ SettleInv
        /\ OfferedInv /\ OfferedInv' /\ [Next]_vars
           => [Promise!Next]_(Promise!campaignVars)
    BY PromiseStep
  <1>4. Spec => []PhaseInv
    BY <1>1, PhaseCorrect
  <1> QED
    BY InitType, StepType, WaveCorrect, RowsCorrect, StatusCorrect, SettleCorrect,
       OfferedCorrect, <1>2, <1>3, <1>4, PTL DEF Spec, KeepsPromise, Promise!Spec
=============================================================================
