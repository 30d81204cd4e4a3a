------------------------------ MODULE Rollout ------------------------------
(***************************************************************************)
(* The whole system: the engine thread, the request handlers, one agent    *)
(* per robot, the operator, the passing of time and the faults the code    *)
(* handles or meets.                                                       *)
(***************************************************************************)
EXTENDS Engine, Agent

CONSTANTS
    PauseFrom,  \* the deployment statuses the operator pauses from
    ResumeFrom, \* the deployment statuses the operator resumes from
    Faults,     \* the faults that may happen: a subset of FaultKind
    MaxFaults   \* bound: how many of them in one behaviour

FaultKind == {"lost", "late", "crash", "server", "abort", "raise"}

ASSUME RolloutAssumption ==
    /\ PauseFrom \subseteq DepStatus \ {"none"} /\ ResumeFrom \subseteq DepStatus \ {"none"}
    /\ Faults \subseteq FaultKind
    /\ MaxFaults \in Nat

VARIABLE faults     \* how many faults have happened

vars == <<robots, deps, tasks, newer, eng, calls, agent, faults>>

Init == StoreInit /\ EngineInit /\ ApiInit /\ AgentInit /\ faults = 0

-----------------------------------------------------------------------------
(* The operator API. *)

(* Deployments are numbered in the order they are created.                 *)
CreateDeployment(d) ==
    /\ deps[d].status = "none"
    /\ \A e \in Dep : e < d => deps[e].status # "none"
    /\ deps' = [deps EXCEPT ![d] = [status |-> "running", stage |-> 0]]
    /\ UNCHANGED <<robots, tasks, newer, eng, calls, agent, faults>>

(* The handlers overwrite the status whatever it is; PauseFrom and         *)
(* ResumeFrom are the operator's own discipline.                           *)
Pause(d) ==
    /\ deps[d].status \in PauseFrom
    /\ SetDepStatus(d, "paused")
    /\ UNCHANGED <<robots, tasks, newer, eng, calls, agent, faults>>

Resume(d) ==
    /\ deps[d].status \in ResumeFrom
    /\ SetDepStatus(d, "running")
    /\ UNCHANGED <<robots, tasks, newer, eng, calls, agent, faults>>

(* POST /api/robots for a robot the store does not know, with any version; *)
(* its agent is taken to be started with the token.                        *)
RegisterRobot(r) ==
    /\ r \in Joiners /\ ~robots[r].known
    /\ \E v \in Version : robots' = [robots EXCEPT ![r] = NewRobotRow(v)]
    /\ UNCHANGED <<deps, tasks, newer, eng, calls, agent, faults>>

(* Time: heartbeat_timeout_s passes without a heartbeat of a robot whose   *)
(* agent is in the middle of an update, or down.                           *)
HeartbeatStale(r) ==
    /\ robots[r].fresh /\ agent[r].pc \notin {"idle", "poll"}
    /\ robots' = [robots EXCEPT ![r].fresh = FALSE]
    /\ UNCHANGED <<deps, tasks, newer, eng, calls, agent, faults>>

-----------------------------------------------------------------------------
(* Faults. *)

Fault(kind) == kind \in Faults /\ faults < MaxFaults /\ faults' = faults + 1

(* A request that never reaches its handler: the agent logs and goes on.   *)
LoseCall(c) ==
    /\ Fault("lost")
    /\ c.step = "new"
    /\ calls' = calls \ {c}
    /\ UNCHANGED <<robots, deps, tasks, newer, eng, agent>>

(* The 10 s client timeout: the agent goes on, the handler will still run. *)
Timeout(c) ==
    /\ Fault("late")
    /\ c.waiting
    /\ calls' = (calls \ {c}) \cup {[c EXCEPT !.waiting = FALSE]}
    /\ UNCHANGED <<robots, deps, tasks, newer, eng, agent>>

AgentCrash(r) ==
    /\ Fault("crash")
    /\ agent[r].pc # "down"
    /\ agent' = [agent EXCEPT ![r] = [@ EXCEPT !.pc = "down", !.task = 0]]
    /\ calls' = {[c EXCEPT !.waiting = @ /\ c.robot # r] : c \in calls}
    /\ UNCHANGED <<robots, deps, tasks, newer, eng>>

(* A new process: everything but what is installed comes from the command  *)
(* line again.                                                             *)
AgentRestart(r) ==
    /\ agent[r].pc = "down"
    /\ agent' = [agent EXCEPT ![r] = Started(r, agent[r].installed)]
    /\ UNCHANGED <<robots, deps, tasks, newer, eng, calls, faults>>

(* The control plane stops and starts again: the requests it was serving   *)
(* and the tick it was in are gone, the tables stay.                       *)
ServerRestart ==
    /\ Fault("server")
    /\ calls' = {} /\ eng' = Idle({})
    /\ UNCHANGED <<robots, deps, tasks, newer, agent>>

(* A store call of the tick raises: tick logs engine_error and goes on     *)
(* with the next deployment.                                               *)
EngineError ==
    /\ Fault("abort")
    /\ eng.pc # "idle" /\ Return
    /\ UNCHANGED <<robots, deps, tasks, newer, calls, agent>>

(* What nothing catches but the loop of run, which only logs: health_check *)
(* raising, or os.makedirs before a download.  No report is sent.          *)
UpdateRaises(r) ==
    /\ Fault("raise")
    /\ Ready(r, "verify") \/ (Ready(r, "download") /\ ~IsRb(r))
    /\ agent' = [agent EXCEPT ![r] = [@ EXCEPT !.pc = "idle", !.task = 0]]
    /\ UNCHANGED <<robots, deps, tasks, newer, eng, calls>>

-----------------------------------------------------------------------------
EngineMoves   == EngineNext /\ UNCHANGED <<calls, agent, faults>>
HandlerMoves(r) == /\ \E c \in CallsOf(r) : Handle(c)
                   /\ UNCHANGED <<eng, agent, faults>>
AgentMoves(r) == AgentStep(r) /\ UNCHANGED <<eng, faults>>

OperatorMoves == \E d \in Dep : CreateDeployment(d) \/ Pause(d) \/ Resume(d)

FaultMoves ==
    \/ \E c \in calls : LoseCall(c) \/ Timeout(c)
    \/ \E r \in Robot : AgentCrash(r) \/ AgentRestart(r) \/ UpdateRaises(r)
    \/ ServerRestart \/ EngineError

Next ==
    \/ EngineMoves
    \/ \E r \in Robot : HandlerMoves(r) \/ AgentMoves(r)
    \/ \E r \in Robot : RegisterRobot(r) \/ HeartbeatStale(r)
    \/ OperatorMoves
    \/ FaultMoves

Spec == Init /\ [][Next]_vars

(* The daemon thread ticks for ever, handlers run to their end, and each   *)
(* agent loops; operator, time and faults are under no obligation.         *)
Fairness ==
    /\ WF_vars(EngineMoves)
    /\ \A r \in Robot : WF_vars(HandlerMoves(r)) /\ WF_vars(AgentMoves(r))

FairSpec == Spec /\ Fairness

TypeOK == /\ StoreTypeOK /\ EngineTypeOK /\ ApiTypeOK /\ AgentTypeOK
          /\ faults \in 0..MaxFaults
=============================================================================
