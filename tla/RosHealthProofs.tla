-------------------------- MODULE RosHealthProofs --------------------------
(* What a health check that passes says of the robot: proofs of TypeOK,    *)
(* HealthySound, PassedRunsTarget and HealthyGraphPasses.                  *)
EXTENDS RosHealth, TLAPS

Checking == {"topics", "lifecycle"}

(* A target that got past the preflight has a manifest. *)
TargetKnown == run.pc \notin {"idle", "failed"} => run.target \in Version

(* The simulated graph is the one its last boot left: apply_update booted  *)
(* into the target, and no topic but the stalled one is slow.              *)
SimKept ==
    backend = "sim" =>
       /\ run.pc # "respawn"
       /\ run.pc \in Checking \cup {"nodes", "passed"} => graph.running = run.target
       /\ \A t \in Topic : graph.speed[t] \in {0, 100}

(* What has been checked so far was right, and still is if nothing changed. *)
NodesRight  == Manifest.nodes \subseteq Alive
Right(t)    == WithinTolerance(Rate(t), Manifest.topics[t])
StatesRight == \A n \in Manifest.lifecycle_nodes : Active(n)

VerdictSound ==
    /\ run.pc \in Checking => run.todo \subseteq DOMAIN Manifest.topics
    /\ run.pc = "lifecycle" => run.todo = {}
    /\ run.pc \in Checking /\ ~run.changed /\ run.ok =>
          NodesRight /\ \A t \in DOMAIN Manifest.topics \ run.todo : Right(t)
    /\ run.pc = "passed" /\ ~run.changed => Conforms

HealthInv == TypeOK /\ TargetKnown /\ SimKept /\ VerdictSound

(* The other direction, which needs long enough samples. *)
VerdictComplete == run.pc \in Checking /\ ~run.changed /\ Conforms => run.ok

-----------------------------------------------------------------------------
(* Sampling. *)

LEMMA RateType ==
    ASSUME NEW v \in Version, NEW t, NEW s \in Nat
    PROVE  RateOf(v, t, s) \in Nat
  <1>1. CASE t \in DOMAIN Manifests[v].topics
    <2>1. Manifests[v].topics[t] \in Nat
      BY <1>1, RosHealthAssumption
    <2>2. Manifests[v].topics[t] * s \in Nat
      BY <2>1
    <2> QED BY <1>1, <2>2 DEF RateOf
  <1>2. CASE t \notin DOMAIN Manifests[v].topics
    BY <1>2 DEF RateOf
  <1> QED BY <1>1, <1>2

LEMMA ManifestRate ==
    ASSUME NEW v \in Version, NEW t \in DOMAIN Manifests[v].topics
    PROVE  Manifests[v].topics[t] \in Nat \ {0} /\ t \in Topic
  BY RosHealthAssumption DEF Topic

(* A topic that is silent is not within tolerance of any rate.             *)
LEMMA SilentFails ==
    ASSUME NEW hz \in Nat \ {0}
    PROVE  ~WithinTolerance(0, hz)
  BY DEF WithinTolerance

(* The jitter of the sim stays within the tolerance.                       *)
LEMMA JitterTolerated ==
    ASSUME NEW hz \in Nat \ {0}, NEW j \in 92..108
    PROVE  /\ WithinTolerance(((hz * 100) * j) \div 100, hz)
           /\ WithinTolerance(hz * 100, hz)
  <1>1. (hz * 100) * j = 100 * (hz * j)
    OBVIOUS
  <1>2. hz * j \in Nat
    OBVIOUS
  <1>3. (100 * (hz * j)) \div 100 = hz * j
    BY <1>2
  <1>4. 92 * hz <= hz * j /\ hz * j <= 108 * hz
    OBVIOUS
  <1> HIDE <1>1
  <1> DEFINE p == hz * j
  <1>5. p \in Nat /\ 92 * hz <= p /\ p <= 108 * hz
    BY <1>2, <1>4
  <1> HIDE DEF p
  <1>6. WithinTolerance(p, hz)
    BY <1>5 DEF WithinTolerance
  <1>7. WithinTolerance(hz * 100, hz)
    BY DEF WithinTolerance
  <1> QED BY <1>1, <1>3, <1>6, <1>7 DEF p

(* What is measured is no rate at all or, on a real robot, the exact one.  *)
LEMMA SampledExact ==
    ASSUME NEW rate \in Nat, NEW actual \in Sampled(rate)
    PROVE  actual \in {0, rate}
  BY DEF Sampled

LEMMA LongSample ==
    ASSUME NEW rate \in Nat, rate * SampleTime >= 200, NEW actual \in Sampled(rate)
    PROVE  actual = rate
  <1> DEFINE p == rate * SampleTime
  <1>1. p \in Nat /\ p >= 200
    BY RosHealthAssumption
  <1>2. p \div 100 >= 2 /\ p \div 100 \in Nat
    BY <1>1
  <1>3. PICK n \in {p \div 100} \cup (IF p % 100 = 0 THEN {} ELSE {p \div 100 + 1}) :
           actual = IF n < 2 THEN 0 ELSE rate
    BY DEF Sampled
  <1> HIDE DEF p
  <1>4. n >= 2 /\ n \in Nat
    BY <1>2, <1>3
  <1> QED BY <1>3, <1>4

LEMMA RateNat ==
    ASSUME TypeOK, NEW t \in Topic
    PROVE  Rate(t) \in Nat
  <1>1. graph.running \in Version /\ graph.speed[t] \in Nat
    BY DEF TypeOK, Graph, Speed
  <1> QED BY <1>1, RateType DEF Rate

(* In the sim a topic of the target has its full rate or none. *)
LEMMA SimRate ==
    ASSUME TypeOK, TargetKnown, SimKept, backend = "sim", run.pc \in Checking,
           NEW t \in DOMAIN Manifest.topics
    PROVE  Rate(t) = 0 \/ Rate(t) = Manifest.topics[t] * 100
  <1>1. run.target \in Version /\ graph.running = run.target
    BY DEF TargetKnown, SimKept, Checking
  <1>2. Manifest.topics[t] \in Nat \ {0} /\ t \in Topic
    BY <1>1, ManifestRate DEF Manifest
  <1>3. Rate(t) = Manifest.topics[t] * graph.speed[t]
    BY <1>1 DEF Rate, RateOf, Manifest
  <1>4. graph.speed[t] = 0 \/ graph.speed[t] = 100
    BY <1>2 DEF SimKept
  <1>5. CASE graph.speed[t] = 0
    BY <1>2, <1>3, <1>5
  <1> QED BY <1>3, <1>4, <1>5

LEMMA MeasuredSound ==
    ASSUME TypeOK, TargetKnown, SimKept, run.pc \in Checking,
           NEW t \in DOMAIN Manifest.topics, NEW actual \in Measured(t),
           WithinTolerance(actual, Manifest.topics[t])
    PROVE  Right(t)
  <1> DEFINE hz == Manifest.topics[t]
  <1>1. run.target \in Version
    BY DEF TargetKnown, Checking
  <1>2. hz \in Nat \ {0} /\ t \in Topic
    BY <1>1, ManifestRate DEF Manifest
  <1>3. Rate(t) \in Nat
    BY <1>2, RateNat
  <1>4. actual # 0
    BY <1>2, SilentFails
  <1>5. CASE backend = "sim"
    <2>1. PICK j \in 92..108 : actual = (Rate(t) * j) \div 100
      BY <1>5 DEF Measured
    <2>2. Rate(t) # 0
      BY <1>4, <2>1
    <2>3. Rate(t) = hz * 100
      BY <1>5, <2>2, SimRate
    <2> QED BY <1>2, <2>3, JitterTolerated DEF Right
  <1>6. CASE backend # "sim"
    <2>1. actual \in Sampled(Rate(t))
      BY <1>6 DEF Measured
    <2>2. actual = Rate(t)
      BY <1>3, <1>4, <2>1, SampledExact
    <2> QED BY <2>2 DEF Right
  <1> QED BY <1>5, <1>6

LEMMA MeasuredComplete ==
    ASSUME TypeOK, TargetKnown, SimKept, SamplesSuffice, run.pc \in Checking,
           NEW t \in DOMAIN Manifest.topics, NEW actual \in Measured(t), Right(t)
    PROVE  WithinTolerance(actual, Manifest.topics[t])
  <1> DEFINE hz == Manifest.topics[t]
  <1>1. run.target \in Version
    BY DEF TargetKnown, Checking
  <1>2. hz \in Nat \ {0} /\ t \in Topic
    BY <1>1, ManifestRate DEF Manifest
  <1>3. Rate(t) \in Nat
    BY <1>2, RateNat
  <1>4. CASE backend = "sim"
    <2>1. PICK j \in 92..108 : actual = (Rate(t) * j) \div 100
      BY <1>4 DEF Measured
    <2>2. Rate(t) # 0
      BY <1>2, SilentFails DEF Right
    <2>3. Rate(t) = hz * 100
      BY <1>4, <2>2, SimRate
    <2> QED BY <1>2, <2>1, <2>3, JitterTolerated
  <1>5. CASE backend # "sim"
    <2>1. actual \in Sampled(Rate(t))
      BY <1>5 DEF Measured
    <2>2. graph.running \in Version /\ graph.speed[t] \in Speed
      BY <1>2 DEF TypeOK, Graph
    <2>3. Rate(t) * SampleTime >= 200
      BY <1>1, <2>2 DEF SamplesSuffice, Right, Rate, Manifest
    <2>4. actual = Rate(t)
      BY <1>3, <2>1, <2>3, LongSample
    <2> QED BY <2>4 DEF Right
  <1> QED BY <1>4, <1>5

-----------------------------------------------------------------------------
(* Types. *)

LEMMA InitHealth == Init => HealthInv /\ VerdictComplete
  <1> SUFFICES ASSUME Init
               PROVE  HealthInv /\ VerdictComplete
    OBVIOUS
  <1>1. PICK v \in Version :
           /\ backend \in {"sim", "rclpy"}
           /\ version = v /\ installed = v
           /\ graph = [running |-> v, dead |-> {}, inactive |-> {},
                       speed |-> [t \in Topic |-> 100], changes |-> 0]
           /\ run = [pc |-> "idle", target |-> v, todo |-> {}, ok |-> TRUE, changed |-> FALSE]
    BY DEF Init
  <1>2. graph \in Graph
    BY <1>1, RosHealthAssumption DEF Graph, Speed
  <1>3. TypeOK
    BY <1>1, <1>2 DEF TypeOK, Run
  <1>4. TargetKnown /\ SimKept /\ VerdictSound /\ VerdictComplete
    BY <1>1 DEF TargetKnown, SimKept, VerdictSound, VerdictComplete, Checking
  <1> QED BY <1>3, <1>4 DEF HealthInv

LEMMA BootedType ==
    ASSUME TypeOK, NEW v \in Version, NEW dead \in SUBSET Manifests[v].nodes, NEW stalled
    PROVE  /\ Booted(v, dead, stalled) \in Graph
           /\ Booted(v, dead, stalled).running = v
           /\ Booted(v, dead, stalled).dead = dead
           /\ \A t \in Topic : Booted(v, dead, stalled).speed[t] \in {0, 100}
  <1>1. dead \in SUBSET Node
    BY DEF Node
  <1>2. [t \in Topic |-> IF t \in stalled THEN 0 ELSE 100] \in [Topic -> Speed]
    BY DEF Speed
  <1>3. graph.changes \in 0..MaxChanges
    BY DEF TypeOK, Graph
  <1>4. Booted(v, dead, stalled) \in Graph
    BY <1>1, <1>2, <1>3 DEF TypeOK, Graph, Booted
  <1>5. /\ Booted(v, dead, stalled).running = v
        /\ Booted(v, dead, stalled).dead = dead
        /\ Booted(v, dead, stalled).speed = [t \in Topic |-> IF t \in stalled THEN 0 ELSE 100]
    BY DEF TypeOK, Graph, Booted
  <1> QED BY <1>4, <1>5

(* A step of the type invariant and of TargetKnown, action by action.      *)
LEMMA StepHealthType ==
    ASSUME TypeOK, TargetKnown, [Next]_vars
    PROVE  TypeOK' /\ TargetKnown'
  <1> USE DEF TargetKnown
  <1>1. ASSUME NEW target \in Version \cup {Unknown}, Preflight(target)
        PROVE  TypeOK' /\ TargetKnown'
    BY <1>1 DEF Preflight, TypeOK, Run
  <1>2. CASE SimApply
    <2>1. run.target \in Version
      BY <1>2 DEF SimApply
    <2>2. \E dead \in SUBSET Manifests[run.target].nodes, stalled \in {{}, {"/scan"}} :
             graph' = Booted(run.target, dead, stalled)
      BY <1>2 DEF SimApply
    <2>3. graph' \in Graph /\ graph'.dead \subseteq Manifests[graph'.running].nodes
      BY <2>1, <2>2, BootedType
    <2>4. run' \in Run /\ run'.target = run.target
      BY <1>2 DEF SimApply, Goto, TypeOK, Run
    <2> QED BY <1>2, <2>1, <2>3, <2>4 DEF SimApply, TypeOK
  <1>3. CASE InstallHook
    <2>1. run' \in Run /\ run'.target = run.target /\ run.target \in Version
      BY <1>3 DEF InstallHook, Goto, TypeOK, Run
    <2> QED BY <1>3, <2>1 DEF InstallHook, TypeOK
  <1>4. CASE Respawn
    <2>1. run' \in Run /\ run'.target = run.target /\ run.target \in Version
      BY <1>4 DEF Respawn, Goto, TypeOK, Run
    <2>2. installed \in Version
      BY DEF TypeOK
    <2>3. graph' \in Graph /\ graph'.dead \subseteq Manifests[graph'.running].nodes
      <3>1. CASE UNCHANGED graph
        BY <3>1 DEF TypeOK
      <3>2. CASE \E down \in {{}} \cup {{n} : n \in Manifests[installed].nodes} :
                    graph' = Booted(installed, down, {})
        <4>1. \E down \in SUBSET Manifests[installed].nodes :
                 graph' = Booted(installed, down, {})
          BY <3>2
        <4> QED BY <2>2, <4>1, BootedType
      <3> QED BY <1>4, <3>1, <3>2 DEF Respawn
    <2> QED BY <1>4, <2>1, <2>3 DEF Respawn, TypeOK
  <1>5. CASE CheckNodes
    <2>1. run.target \in Version
      BY <1>5 DEF CheckNodes
    <2>2. DOMAIN Manifest.topics \in SUBSET Topic
      BY <2>1 DEF Manifest, Topic
    <2>3. run' \in Run /\ run'.target = run.target
      BY <1>5, <2>2 DEF CheckNodes, TypeOK, Run
    <2> QED BY <1>5, <2>1, <2>3 DEF CheckNodes, TypeOK
  <1>6. CASE CheckTopic
    <2>1. PICK t \in run.todo, good \in BOOLEAN :
             run' = [run EXCEPT !.todo = @ \ {t}, !.ok = @ /\ good,
                                !.pc = IF run.todo = {t} THEN "lifecycle" ELSE @]
      <3>1. PICK t \in run.todo : \E actual \in Measured(t) :
               run' = [run EXCEPT !.todo = @ \ {t},
                                  !.ok = @ /\ WithinTolerance(actual, Manifest.topics[t]),
                                  !.pc = IF run.todo = {t} THEN "lifecycle" ELSE @]
        BY <1>6 DEF CheckTopic
      <3>2. PICK actual \in Measured(t) :
               run' = [run EXCEPT !.todo = @ \ {t},
                                  !.ok = @ /\ WithinTolerance(actual, Manifest.topics[t]),
                                  !.pc = IF run.todo = {t} THEN "lifecycle" ELSE @]
        BY <3>1
      <3>3. WithinTolerance(actual, Manifest.topics[t]) \in BOOLEAN
        BY DEF WithinTolerance
      <3> QED BY <3>2, <3>3
    <2>2. run' \in Run /\ run'.target = run.target /\ run.target \in Version
      BY <1>6, <2>1 DEF CheckTopic, TypeOK, Run
    <2> QED BY <1>6, <2>2 DEF CheckTopic, TypeOK
  <1>7. CASE CheckLifecycle
    <2>1. run' \in Run /\ run'.target = run.target /\ run.target \in Version
      BY <1>7 DEF CheckLifecycle, Active, TypeOK, Run
    <2> QED BY <1>7, <2>1 DEF CheckLifecycle, TypeOK
  <1>8. CASE Change
    <2>1. run' \in Run /\ run'.target = run.target /\ run'.pc = run.pc
      BY <1>8 DEF Change, TypeOK, Run
    <2>2. graph.changes + 1 \in 0..MaxChanges
      <3>1. MaxChanges \in Nat
        BY RosHealthAssumption
      <3>2. graph.changes \in 0..MaxChanges /\ graph.changes < MaxChanges
        BY <1>8 DEF Change, TypeOK, Graph
      <3> QED BY <3>1, <3>2
    <2>3. graph' \in Graph /\ graph'.dead \subseteq Manifests[graph'.running].nodes
      <3>1. ASSUME NEW n \in Manifests[graph.running].nodes,
                   graph' = [graph EXCEPT !.changes = @ + 1,
                               !.dead = IF n \in @ THEN @ \ {n} ELSE @ \cup {n}]
            PROVE  graph' \in Graph /\ graph'.dead \subseteq Manifests[graph'.running].nodes
        <4>1. n \in Node
          BY DEF TypeOK, Graph, Node
        <4> QED BY <2>2, <3>1, <4>1 DEF TypeOK, Graph
      <3>2. ASSUME NEW n \in Manifests[graph.running].nodes,
                   graph' = [graph EXCEPT !.changes = @ + 1, !.inactive = @ \cup {n}]
            PROVE  graph' \in Graph /\ graph'.dead \subseteq Manifests[graph'.running].nodes
        <4>1. n \in Node
          BY DEF TypeOK, Graph, Node
        <4> QED BY <2>2, <3>2, <4>1 DEF TypeOK, Graph
      <3>3. ASSUME NEW t \in Topic, NEW s \in Speed,
                   graph' = [graph EXCEPT !.changes = @ + 1, !.speed[t] = s]
            PROVE  graph' \in Graph /\ graph'.dead \subseteq Manifests[graph'.running].nodes
        BY <2>2, <3>3 DEF TypeOK, Graph
      <3> QED BY <1>8, <3>1, <3>2, <3>3 DEF Change
    <2> QED BY <1>8, <2>1, <2>3 DEF Change, TypeOK
  <1>9. CASE UNCHANGED vars
    BY <1>9 DEF vars, TypeOK
  <1> QED BY <1>1, <1>2, <1>3, <1>4, <1>5, <1>6, <1>7, <1>8, <1>9 DEF Next

(* What the checks say is about the graph, which they only read.           *)
LEMMA StepHealth ==
    ASSUME HealthInv, [Next]_vars
    PROVE  /\ HealthInv'
           /\ SamplesSuffice /\ VerdictComplete => VerdictComplete'
  <1> USE DEF HealthInv
  <1>0. TypeOK' /\ TargetKnown'
    BY StepHealthType
  <1> SUFFICES /\ SimKept' /\ VerdictSound'
               /\ SamplesSuffice /\ VerdictComplete => VerdictComplete'
    BY <1>0
  <1>a. run \in Run /\ graph \in Graph
    BY DEF TypeOK
  <1>b. ASSUME UNCHANGED <<backend, version, installed, graph>>, run'.target = run.target
        PROVE  /\ Manifest' = Manifest /\ NodesRight' = NodesRight
               /\ \A t : Right(t)' = Right(t)
               /\ StatesRight' = StatesRight /\ Conforms' = Conforms
    BY <1>b DEF Manifest, NodesRight, Right, StatesRight, Conforms, Alive, Active, Rate
  <1>1. ASSUME NEW target \in Version \cup {Unknown}, Preflight(target)
        PROVE  SimKept' /\ VerdictSound' /\ VerdictComplete'
    BY <1>1 DEF Preflight, SimKept, VerdictSound, VerdictComplete, Checking
  <1>2. CASE SimApply
    <2>1. run.target \in Version /\ run'.pc = "nodes" /\ run'.target = run.target
      BY <1>2, <1>a DEF SimApply, TargetKnown, Goto, Run
    <2>2. \E dead \in SUBSET Manifests[run.target].nodes, stalled \in {{}, {"/scan"}} :
             graph' = Booted(run.target, dead, stalled)
      BY <1>2 DEF SimApply
    <2>3. PICK dead \in SUBSET Manifests[run.target].nodes, stalled \in {{}, {"/scan"}} :
             graph' = Booted(run.target, dead, stalled)
      BY <2>2
    <2>4. graph'.running = run.target /\ \A t \in Topic : graph'.speed[t] \in {0, 100}
      BY <2>1, <2>3, BootedType
    <2> QED BY <2>1, <2>4 DEF SimKept, VerdictSound, VerdictComplete, Checking
  <1>3. CASE InstallHook
    <2>1. run'.pc \in {"respawn", "failed"} /\ backend' = "rclpy"
      BY <1>3, <1>a DEF InstallHook, Goto, Run
    <2> QED BY <2>1 DEF SimKept, VerdictSound, VerdictComplete, Checking
  <1>4. CASE Respawn
    <2>1. run'.pc \in {"nodes", "failed"}
      BY <1>4, <1>a DEF Respawn, Goto, Run
    <2>2. VerdictSound' /\ VerdictComplete'
      BY <2>1 DEF VerdictSound, VerdictComplete, Checking
    <2>3. backend' # "sim"
      BY <1>4 DEF Respawn, SimKept
    <2> QED BY <2>2, <2>3 DEF SimKept
  <1>5. CASE CheckNodes
    <2>1. /\ run'.pc \in Checking /\ run.pc = "nodes"
          /\ run'.target = run.target /\ run'.todo = DOMAIN Manifest.topics
          /\ run'.ok = NodesRight
          /\ run'.pc = "lifecycle" => run'.todo = {}
      BY <1>5, <1>a DEF CheckNodes, NodesRight, Checking, Run
    <2>2. UNCHANGED <<backend, version, installed, graph>>
      BY <1>5 DEF CheckNodes
    <2>3. SimKept'
      BY <2>1, <2>2 DEF SimKept, Checking
    <2>4. VerdictSound'
      BY <1>b, <2>1, <2>2 DEF VerdictSound, Checking
    <2>5. VerdictComplete'
      BY <1>b, <2>1, <2>2 DEF VerdictComplete, Conforms, NodesRight
    <2> QED BY <2>3, <2>4, <2>5
  <1>6. CASE CheckTopic
    <2>0. PICK t \in run.todo : \E actual \in Measured(t) :
             run' = [run EXCEPT !.todo = @ \ {t},
                                !.ok = @ /\ WithinTolerance(actual, Manifest.topics[t]),
                                !.pc = IF run.todo = {t} THEN "lifecycle" ELSE @]
      BY <1>6 DEF CheckTopic
    <2>1. PICK actual \in Measured(t) :
             run' = [run EXCEPT !.todo = @ \ {t},
                                !.ok = @ /\ WithinTolerance(actual, Manifest.topics[t]),
                                !.pc = IF run.todo = {t} THEN "lifecycle" ELSE @]
      BY <2>0
    <2> DEFINE good == WithinTolerance(actual, Manifest.topics[t])
    <2>2. /\ run.pc = "topics" /\ run'.pc \in Checking
          /\ run'.target = run.target /\ run'.changed = run.changed
          /\ run'.todo = run.todo \ {t} /\ (run'.ok <=> (run.ok /\ good))
          /\ run'.pc = "lifecycle" => run'.todo = {}
      BY <1>6, <1>a, <2>1 DEF CheckTopic, Checking, Run
    <2>3. UNCHANGED <<backend, version, installed, graph>>
      BY <1>6 DEF CheckTopic
    <2> HIDE DEF good
    <2>4. SimKept'
      BY <2>2, <2>3 DEF SimKept, Checking
    <2>5. t \in DOMAIN Manifest.topics /\ (good => Right(t))
      <3>1. t \in DOMAIN Manifest.topics
        BY <2>2 DEF VerdictSound, Checking
      <3> QED BY <2>2, <3>1, MeasuredSound DEF good, Checking
    <2>6. VerdictSound'
      BY <1>b, <2>2, <2>3, <2>5 DEF VerdictSound, Checking
    <2>7. ASSUME SamplesSuffice, VerdictComplete
          PROVE  VerdictComplete'
      <3>1. Right(t) => good
        BY <2>2, <2>5, <2>7, MeasuredComplete DEF good, Checking
      <3>2. Conforms => Right(t)
        BY <2>5 DEF Conforms, Right
      <3>3. Conforms' = Conforms
        BY <1>b, <2>2, <2>3
      <3> QED BY <2>2, <2>7, <3>1, <3>2, <3>3 DEF VerdictComplete, Checking
    <2> QED BY <2>4, <2>6, <2>7
  <1>7. CASE CheckLifecycle
    <2>1. /\ run.pc = "lifecycle" /\ run'.pc \in {"passed", "failed"}
          /\ run'.target = run.target /\ run'.changed = run.changed
          /\ run'.pc = "passed" => run.ok /\ StatesRight
      BY <1>7, <1>a DEF CheckLifecycle, StatesRight, Run
    <2>2. UNCHANGED <<backend, version, installed, graph>>
      BY <1>7 DEF CheckLifecycle
    <2>3. SimKept'
      BY <2>1, <2>2 DEF SimKept, Checking
    <2>4. run'.pc = "passed" /\ ~run'.changed => Conforms'
      <3> SUFFICES ASSUME run'.pc = "passed", ~run'.changed
                   PROVE  Conforms'
        OBVIOUS
      <3>1. run.ok /\ StatesRight /\ run.todo = {}
        BY <2>1 DEF VerdictSound
      <3>2. NodesRight /\ \A t \in DOMAIN Manifest.topics : Right(t)
        BY <2>1, <3>1 DEF VerdictSound, Checking
      <3>3. Conforms
        BY <3>1, <3>2 DEF Conforms, NodesRight, Right, StatesRight
      <3> QED BY <1>b, <2>1, <2>2, <3>3
    <2>5. VerdictSound'
      BY <2>1, <2>4 DEF VerdictSound, Checking
    <2> QED BY <2>1, <2>3, <2>5 DEF VerdictComplete, Checking
  <1>8. CASE Change
    <2>1. run'.changed /\ run'.pc = run.pc /\ run'.todo = run.todo /\ backend' = "rclpy"
      BY <1>8, <1>a DEF Change, Run
    <2>2. Manifest' = Manifest
      BY <1>8, <1>a DEF Change, Run, Manifest
    <2> QED BY <2>1, <2>2 DEF SimKept, VerdictSound, VerdictComplete
  <1>9. CASE UNCHANGED vars
    <2>1. SimKept'
      BY <1>9 DEF vars, SimKept
    <2>2. VerdictSound' /\ (VerdictComplete => VerdictComplete')
      BY <1>9, <1>b DEF vars, VerdictSound, VerdictComplete
    <2> QED BY <2>1, <2>2
  <1> QED BY <1>1, <1>2, <1>3, <1>4, <1>5, <1>6, <1>7, <1>8, <1>9 DEF Next

LEMMA HealthInductive == Spec => []HealthInv
  <1>1. Init => HealthInv
    BY InitHealth
  <1>2. HealthInv /\ [Next]_vars => HealthInv'
    BY StepHealth
  <1> QED BY <1>1, <1>2, PTL DEF Spec

-----------------------------------------------------------------------------
(* Every state of the health check is well typed; what is down in the      *)
(* graph belongs to the version that runs.                                 *)
THEOREM HealthTypeCorrect == Spec => []TypeOK
  <1>1. HealthInv => TypeOK
    BY DEF HealthInv
  <1> QED BY <1>1, HealthInductive, PTL

(* A check that passes over a graph that kept still means that the graph   *)
(* matches the manifest, whatever the manifests and for every jitter of    *)
(* the simulator and every window of the sampling.                         *)
THEOREM HealthySoundHolds == Spec => []HealthySound
  <1>1. HealthInv => HealthySound
    BY DEF HealthInv, VerdictSound, HealthySound
  <1> QED BY <1>1, HealthInductive, PTL

(* With manifests that do not pass for one another, a check that passes    *)
(* with no topic slow means that the target runs, though the update may    *)
(* have had no hook that installs or restarts anything.                    *)
THEOREM PassedRunsTargetHolds == VersionsDiffer => (Spec => []PassedRunsTarget)
  <1> SUFFICES ASSUME VersionsDiffer
               PROVE  Spec => []PassedRunsTarget
    OBVIOUS
  <1>1. HealthInv => PassedRunsTarget
    <2> SUFFICES ASSUME HealthInv, run.pc = "passed", ~run.changed,
                        \A t \in Topic : graph.speed[t] = 100
                 PROVE  graph.running = run.target
      BY DEF PassedRunsTarget
    <2>1. run.target \in Version /\ graph.running \in Version
      BY DEF HealthInv, TargetKnown, TypeOK, Graph
    <2>2. Conforms
      BY DEF HealthInv, VerdictSound
    <2>3. Manifests[run.target].nodes \subseteq Manifests[graph.running].nodes
      BY <2>2 DEF Conforms, Alive, Manifest
    <2>4. ASSUME NEW t \in DOMAIN Manifests[run.target].topics
          PROVE  WithinTolerance(RateOf(graph.running, t, 100), Manifests[run.target].topics[t])
      <3>1. t \in Topic
        BY <2>1, ManifestRate
      <3> QED BY <2>2, <3>1 DEF Conforms, Manifest, Rate
    <2> QED BY <2>1, <2>3, <2>4 DEF VersionsDiffer
  <1> QED BY <1>1, HealthInductive, PTL

(* With samples long enough for the rates in the manifests, a check over a *)
(* graph that matches the manifest all the while passes.                   *)
THEOREM HealthyGraphPassesHolds == SamplesSuffice => (Spec => []HealthyGraphPasses)
  <1> SUFFICES ASSUME SamplesSuffice
               PROVE  Spec => []HealthyGraphPasses
    OBVIOUS
  <1>1. Init => HealthInv /\ VerdictComplete
    BY InitHealth
  <1>2. (HealthInv /\ VerdictComplete) /\ [Next]_vars => (HealthInv /\ VerdictComplete)'
    BY StepHealth
  <1>3. HealthInv /\ VerdictComplete => HealthyGraphPasses
    BY DEF VerdictComplete, HealthyGraphPasses, Checking
  <1> QED BY <1>1, <1>2, <1>3, PTL DEF Spec
=============================================================================
