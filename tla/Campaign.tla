------------------------------ MODULE Campaign -----------------------------
(***************************************************************************)
(* What one deployment promises its fleet, with no engine, database,       *)
(* request or agent in sight: robots are offered the release in stages,    *)
(* a stage opens only when every offer made so far is settled, and a       *)
(* deployment that stops never offers the release again.                   *)
(***************************************************************************)
EXTENDS Integers, FiniteSets

CONSTANTS
    Robot,      \* the fleet
    LastStage,   \* the number of the last stage
    Reach(_)     \* Reach(s): the robots stage s may reach

VARIABLES
    status,     \* the lifecycle of docs/API.md:97-100
    stage,      \* the stage that is open
    offered,    \* the robots that have been offered the release
    settled     \* those of them that are done with it

campaignVars == <<status, stage, offered, settled>>

Init ==
    /\ status = "none" /\ stage = 0
    /\ offered = {} /\ settled = {}

Start ==
    /\ status = "none" /\ status' = "running"
    /\ UNCHANGED <<stage, offered, settled>>

(* An incompatible robot is settled as it is offered: its task is skipped. *)
Offer ==
    /\ status = "running"
    /\ \E r \in Reach(stage) \ offered :
          /\ offered' = offered \cup {r}
          /\ settled' \in {settled, settled \cup {r}}
    /\ UNCHANGED <<status, stage>>

(* A robot may still finish what it had begun when the deployment stopped. *)
Settle ==
    /\ \E r \in offered \ settled : settled' = settled \cup {r}
    /\ UNCHANGED <<status, stage, offered>>

Advance ==
    /\ status = "running" /\ stage < LastStage
    /\ settled = offered /\ Reach(stage) \subseteq offered
    /\ stage' = stage + 1
    /\ UNCHANGED <<status, offered, settled>>

Complete ==
    /\ status = "running" /\ stage = LastStage
    /\ settled = offered /\ Reach(stage) \subseteq offered
    /\ status' = "completed"
    /\ UNCHANGED <<stage, offered, settled>>

RollBack ==
    /\ status = "running" /\ settled # {}
    /\ status' = "rolling_back"
    /\ UNCHANGED <<stage, offered, settled>>

Halt ==
    /\ status \in {"running", "rolling_back"} /\ settled # {}
    /\ status' = "halted"
    /\ UNCHANGED <<stage, offered, settled>>

Next == Start \/ Offer \/ Settle \/ Advance \/ Complete \/ RollBack \/ Halt

Spec == Init /\ [][Next]_campaignVars
=============================================================================
