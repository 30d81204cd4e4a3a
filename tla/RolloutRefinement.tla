------------------------- MODULE RolloutRefinement -------------------------
(* The rollout system, seen through its deployments and task rows only,    *)
(* implements module Campaign.                                             *)
EXTENDS RolloutProperties

(* The first deployment keeps the promise of module Campaign.              *)
Promise == INSTANCE Campaign WITH
    LastStage <- MaxStage(1),
    Reach     <- LAMBDA s : Wave(1, s),
    status    <- deps[1].status,
    stage     <- deps[1].stage,
    offered   <- {tasks[k].robot : k \in Forward(TasksOf(1))},
    settled   <- {tasks[k].robot : k \in WithStatus(Forward(TasksOf(1)), Terminal)}

KeepsPromise == Promise!Spec
=============================================================================
