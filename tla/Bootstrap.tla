----------------------------- MODULE Bootstrap -----------------------------
(***************************************************************************)
(* How a robot comes by its bearer token: registration by the operator     *)
(* (app.py:180) or the robot's first heartbeat (app.py:129), the check of  *)
(* every later request (auth.py:79), and what the agent keeps of the       *)
(* answers.  A token is the number of its issue and its own hash: tokens   *)
(* are random and sha256 is taken to be free of collisions.                *)
(***************************************************************************)
EXTENDS Integers, FiniteSets

CONSTANTS
    Robot,          \* robot ids
    MaxRegister,    \* bound: how often the operator registers one robot
    MaxFaults       \* bound: faults in one behaviour

ASSUME BootstrapAssumption == MaxRegister \in Nat /\ MaxFaults \in Nat

VARIABLES
    rows,       \* rows[r]: the columns of the robots table that matter here
    issued,     \* how many tokens have been issued
    requests,   \* requests sent, in a handler, or answered and not yet received
    agents,     \* agents[r]: the agent process of robot r
    operator,   \* operator[r]: the token shown for r, and how often r was registered
    hurt,       \* the robots that a fault has met
    faults

bootVars == <<rows, issued, requests, agents, operator, hurt, faults>>

NoToken == 0
Token   == Nat

Row      == [known: BOOLEAN, token_hash: Token, current_version: {"none", "default", "own"}]
Request  == [robot: Robot, kind: {"heartbeat", "register"}, presented: Token,
             step: {"new", "admitted", "upsert", "issue", "version", "ok", "refused"},
             token: Token, gone: Nat]
AgentRow == [at: {"off", "loop", "heartbeat", "poll", "busy"}, arg: Token, token: Token]
Operator == [token: Token, registrations: 0..MaxRegister, late: BOOLEAN]

BootstrapTypeOK ==
    /\ rows \in [Robot -> Row]
    /\ issued \in Nat /\ faults \in 0..MaxFaults
    /\ requests \subseteq Request
    /\ agents \in [Robot -> AgentRow]
    /\ operator \in [Robot -> Operator]
    /\ hurt \subseteq Robot

(* A row may be older than migration 2: known, and without a token.        *)
BootstrapInit ==
    /\ \E old \in SUBSET Robot :
          rows = [r \in Robot |-> [known |-> r \in old, token_hash |-> NoToken,
                     current_version |-> IF r \in old THEN "own" ELSE "none"]]
    /\ issued = 0 /\ faults = 0 /\ requests = {} /\ hurt = {}
    /\ agents = [r \in Robot |-> [at |-> "off", arg |-> NoToken, token |-> NoToken]]
    /\ operator = [r \in Robot |-> [token |-> NoToken, registrations |-> 0, late |-> FALSE]]

Up(r)          == agents[r].at # "off"
RequestsOf(r)  == {c \in requests : c.robot = r}
Registering(r) == \E c \in RequestsOf(r) : c.kind = "register"

-----------------------------------------------------------------------------
(* The handlers, one store call a step.                                    *)

(* gone is 0 while somebody waits for the answer; else it only tells       *)
(* requests apart, and the end of such a handler is seen by nobody.        *)
Over(c) == c.step \in {"ok", "refused"}

Replace(c, new) ==
    requests' = (requests \ {c}) \cup (IF new.gone # 0 /\ Over(new) THEN {} ELSE {new})

(* Nobody waits for the answer any more: gone is the first free number.    *)
Abandon(c) ==
    LET Free(i) == \A other \in requests : other.gone # i IN
    \E i \in 1..(Cardinality(requests) + 1) :
       /\ Free(i) /\ \A j \in 1..(i - 1) : ~Free(j)
       /\ Replace(c, [c EXCEPT !.gone = i])

(* require_robot: a row without a token admits anyone, else the token      *)
(* presented must be the one stored.                                       *)
Admits(r, presented) == rows[r].token_hash \in {NoToken, presented}

RequireRobot(c) ==
    /\ c.step = "new"
    /\ Replace(c, [c EXCEPT !.step = IF Admits(c.robot, c.presented) THEN "admitted"
                                     ELSE "refused"])
    /\ UNCHANGED <<rows, issued>>

(* Mutants of Decide: every heartbeat is given a token, and only the robots *)
(* without a row are.                                                      *)
DecideAlways(c) ==
    /\ c.step = "admitted"
    /\ Replace(c, [c EXCEPT !.step = "upsert"])
    /\ UNCHANGED <<rows, issued>>

DecideUnknown(c) ==
    /\ c.step = "admitted"
    /\ Replace(c, [c EXCEPT !.step = IF rows[c.robot].known THEN "version" ELSE "upsert"])
    /\ UNCHANGED <<rows, issued>>

(* The two reads of heartbeat; neither a row nor a hash ever goes away, so *)
(* they are as good as one.                                                *)
Decide(c) ==
    /\ c.step = "admitted"
    /\ Replace(c, [c EXCEPT !.step =
          IF ~rows[c.robot].known \/ rows[c.robot].token_hash = NoToken
          THEN "upsert" ELSE "version"])
    /\ UNCHANGED <<rows, issued>>

(* upsert_robot leaves the token alone; a registration that names no       *)
(* version writes the default "1.0.0".                                     *)
UpsertRobot(c) ==
    /\ c.step = "upsert"
    /\ rows' = [rows EXCEPT ![c.robot].known = TRUE,
          ![c.robot].current_version = IF c.kind = "register" THEN "default" ELSE "own"]
    /\ Replace(c, [c EXCEPT !.step = "issue"])
    /\ UNCHANGED issued

(* issue_robot_token and set_robot_token_hash. *)
IssueToken(c) ==
    /\ c.step = "issue"
    /\ issued' = issued + 1
    /\ rows' = [rows EXCEPT ![c.robot].token_hash = issued']
    /\ Replace(c, [c EXCEPT !.token = issued',
                            !.step = IF c.kind = "register" THEN "ok" ELSE "version"])

(* A mutant of StoreVersion: a version on record is not replaced.          *)
StoreVersionOnce(c) ==
    /\ c.step = "version"
    /\ rows' = [rows EXCEPT ![c.robot].current_version = IF @ = "none" THEN "own" ELSE @]
    /\ Replace(c, [c EXCEPT !.step = "ok"])
    /\ UNCHANGED issued

(* update_robot_state, whose columns are those of module Store, and        *)
(* set_robot_version.                                                      *)
StoreVersion(c) ==
    /\ c.step = "version"
    /\ rows' = [rows EXCEPT ![c.robot].current_version = "own"]
    /\ Replace(c, [c EXCEPT !.step = "ok"])
    /\ UNCHANGED issued

HandlerStep(c) ==
    /\ RequireRobot(c) \/ Decide(c) \/ UpsertRobot(c) \/ IssueToken(c) \/ StoreVersion(c)
    /\ UNCHANGED <<agents, operator, hurt, faults>>

-----------------------------------------------------------------------------
(* The agents and the operator.                                            *)

Send(r, kind, presented, step) ==
    requests' = requests \cup
        {[robot |-> r, kind |-> kind, presented |-> presented, step |-> step,
          token |-> NoToken, gone |-> 0]}

(* A new agent process knows the token of its command line, and nobody     *)
(* waits for the answer to the one before it.                              *)
Boot(r, arg) ==
    /\ agents' = [agents EXCEPT ![r] = [at |-> "loop", arg |-> arg, token |-> arg]]
    /\ IF agents[r].at = "heartbeat"
       THEN \E c \in RequestsOf(r) :
               c.kind = "heartbeat" /\ c.gone = 0 /\ Abandon(c)
       ELSE UNCHANGED requests
    /\ UNCHANGED <<rows, issued>>

(* The first start: without a token, or with the one the operator saw; the *)
(* answer to a registration still under way comes late.                    *)
StartAgent(r) ==
    /\ ~Up(r)
    /\ Boot(r, operator[r].token)
    /\ operator' = [operator EXCEPT ![r].late = @ \/ Registering(r)]
    /\ UNCHANGED <<hurt, faults>>

(* The operator starts the agent again with the token of a registration.   *)
Reprovision(r) ==
    /\ Up(r) /\ operator[r].token \notin {NoToken, agents[r].arg}
    /\ Boot(r, operator[r].token)
    /\ UNCHANGED <<operator, hurt, faults>>

Heartbeat(r) ==
    /\ agents[r].at = "loop"
    /\ Send(r, "heartbeat", agents[r].token, "new")
    /\ agents' = [agents EXCEPT ![r].at = "heartbeat"]
    /\ UNCHANGED <<rows, issued, operator, hurt, faults>>

(* The poll is refused, or offers nothing to do.                           *)
PollNothing(r) ==
    /\ agents[r].at = "poll"
    /\ agents' = [agents EXCEPT ![r].at = "loop"]
    /\ UNCHANGED <<rows, issued, requests, operator, hurt, faults>>

(* POST /api/robots; late if the agent runs before it is answered.         *)
Register(r) ==
    /\ ~Registering(r) /\ operator[r].registrations < MaxRegister
    /\ Send(r, "register", NoToken, "upsert")
    /\ operator' = [operator EXCEPT ![r] =
          [token |-> NoToken, registrations |-> @.registrations + 1, late |-> Up(r)]]
    /\ UNCHANGED <<rows, issued, agents, hurt, faults>>

(* An answer arrives.  An agent that has a token ignores another one.      *)
Answer(c) ==
    /\ c.gone = 0 /\ Over(c)
    /\ requests' = requests \ {c}
    /\ IF c.kind = "register"
       THEN operator' = [operator EXCEPT ![c.robot].token = c.token] /\ UNCHANGED agents
       ELSE /\ agents' = [agents EXCEPT ![c.robot].at = "poll",
                             ![c.robot].token = IF @ = NoToken THEN c.token ELSE @]
            /\ UNCHANGED operator
    /\ UNCHANGED <<rows, issued, hurt, faults>>

-----------------------------------------------------------------------------
(* Faults. *)

Fault(met) ==
    /\ faults < MaxFaults
    /\ faults' = faults + 1
    /\ hurt' = hurt \cup met

(* The 10 s timeout, or an answer lost on the way.                         *)
GiveUp(c) ==
    /\ Fault({c.robot})
    /\ c.gone = 0 /\ Abandon(c)
    /\ agents' = IF c.kind = "heartbeat" THEN [agents EXCEPT ![c.robot].at = "poll"]
                 ELSE agents
    /\ UNCHANGED <<rows, issued, operator>>

RestartAgent(r) == Fault({r}) /\ Up(r) /\ Boot(r, agents[r].arg) /\ UNCHANGED operator

(* The control plane stops and starts again: all calls end in an error.    *)
RestartServer(busy) ==
    /\ Fault({c.robot : c \in requests} \cup busy)
    /\ requests' = {}
    /\ agents' = [r \in Robot |-> [agents[r] EXCEPT !.at =
          CASE @ = "heartbeat" -> "poll" [] @ = "busy" -> "loop" [] OTHER -> @]]
    /\ UNCHANGED <<rows, issued, operator>>

=============================================================================
