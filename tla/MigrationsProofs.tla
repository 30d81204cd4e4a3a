-------------------------- MODULE MigrationsProofs --------------------------
(* What init_db guarantees for any list of migrations, any number of       *)
(* processes and any number of stops.                                      *)
EXTENDS Migrations, TLAPS

(* How far a process has come is how far the schema has come. *)
Progress(p) ==
    LET q == proc[p] IN
    /\ q.pc \in {"begin", "script", "insert"} =>
          q.version \in Version /\ Upto(q.version - 1) \subseteq schema
    /\ q.pc = "script" =>
          /\ q.line \in 1..Len(Script[q.version])
          /\ \A i \in 1..(q.line - 1) : Script[q.version][i] \in schema
    /\ q.pc = "insert" => Upto(q.version) \subseteq schema
    /\ \A v \in q.pending : Upto(v) \subseteq schema
    /\ q.pc \in {"exit", "ready"} => Object \subseteq schema

Inv == TypeOK /\ VersionsFollowSchema /\ \A p \in Process : Progress(p)

-----------------------------------------------------------------------------
(* The versions 1..v add what 1..(v-1) add and what v creates.             *)
LEMMA UptoStep ==
    ASSUME NEW v \in Version
    PROVE  Upto(v) = Upto(v - 1) \cup Created(v)
  <1>1. v \in Nat /\ v > 0
    BY MigrationsAssumption DEF Version
  <1>2. 1..v = (1..(v - 1)) \cup {v}
    BY <1>1
  <1> QED
    BY <1>2 DEF Upto

LEMMA UptoAll == Upto(Len(Script)) = Object /\ Upto(0) = {}
  BY MigrationsAssumption DEF Upto, Object, Version

LEMMA ScriptType ==
    ASSUME NEW v \in Version
    PROVE  /\ Script[v] \in Seq(Object) /\ Len(Script[v]) \in Nat \ {0}
           /\ \A i \in 1..Len(Script[v]) : Script[v][i] \in Object
           /\ Created(v) = {Script[v][i] : i \in 1..Len(Script[v])}
  BY MigrationsAssumption DEF Version, Created

(* A schema that only grows, and the same process records but one.         *)
LEMMA Grows ==
    ASSUME Inv, schema \subseteq schema', NEW p \in Process,
           \A q \in Process \ {p} : proc'[q] = proc[q]
    PROVE  \A q \in Process \ {p} : Progress(q)'
  BY DEF Inv, Progress

LEMMA InitInv == Init => Inv
  <1> SUFFICES ASSUME Init PROVE Inv
    OBVIOUS
  <1>1. TypeOK
    BY MigrationsAssumption DEF Init, TypeOK, Proc
  <1>2. VersionsFollowSchema
    BY MigrationsAssumption DEF Init, VersionsFollowSchema
  <1>3. \A p \in Process : Progress(p)
    BY DEF Init, Progress
  <1> QED
    BY <1>1, <1>2, <1>3 DEF Inv

LEMMA StartKeeps ==
    ASSUME Inv, NEW p \in Process, Start(p), lone' \subseteq Process
    PROVE  Inv'
  <1>1. PICK current \in versions \cup {0} :
           proc' = [proc EXCEPT ![p] =
                [pc |-> IF current + 1 \in Version THEN "begin" ELSE "ready",
                 version |-> current + 1, line |-> 1, pending |-> {}]]
    BY DEF Start
  <1>2. current \in 0..Len(Script) /\ Upto(current) \subseteq schema
    BY UptoAll, MigrationsAssumption DEF Inv, TypeOK, VersionsFollowSchema, Version
  <1>3. proc'[p] = [pc |-> IF current + 1 \in Version THEN "begin" ELSE "ready",
                    version |-> current + 1, line |-> 1, pending |-> {}]
    BY <1>1 DEF Inv, TypeOK
  <1>4. current + 1 \in 1..(Len(Script) + 1) /\ (current + 1) - 1 = current
    BY <1>2, MigrationsAssumption
  <1>5. current + 1 \notin Version => current = Len(Script)
    BY <1>2, MigrationsAssumption DEF Version
  <1>6. Progress(p)'
    BY <1>2, <1>3, <1>4, <1>5, UptoAll DEF Progress, Start
  <1>7. TypeOK'
    BY <1>1, <1>4 DEF Inv, TypeOK, Proc, Start
  <1>8. VersionsFollowSchema'
    BY DEF Inv, VersionsFollowSchema, Start
  <1> QED
    BY <1>1, <1>6, <1>7, <1>8, Grows DEF Inv, Start, TypeOK

(* Begin and Exit commit what is pending. *)
LEMMA CommitKeeps ==
    ASSUME Inv, NEW p \in Process, Begin(p) \/ Exit(p), lone' \subseteq Process
    PROVE  Inv'
  <1>1. proc[p] \in Proc /\ schema' = schema
    BY DEF Inv, TypeOK, Begin, Exit
  <1>2. VersionsFollowSchema'
    BY <1>1 DEF Inv, Progress, VersionsFollowSchema, Begin, Exit
  <1>3. \A q \in Process \ {p} : proc'[q] = proc[q]
    BY DEF Inv, TypeOK, Begin, Exit
  <1>4. CASE Begin(p)
    <2>1. /\ proc'[p] = [proc[p] EXCEPT !.pc = "script", !.line = 1, !.pending = {}]
          /\ proc[p].pc = "begin"
      BY <1>4 DEF Begin, Inv, TypeOK
    <2> DEFINE q == [pc |-> "script", version |-> proc[p].version, line |-> 1, pending |-> {}]
    <2>0. proc'[p] = q
      BY <1>1, <2>1 DEF Proc
    <2>2. /\ proc'[p] \in Proc /\ proc'[p].pc = "script" /\ proc'[p].line = 1
          /\ proc'[p].pending = {} /\ proc'[p].version = proc[p].version
      BY <1>1, <2>0 DEF Proc
    <2>3. proc[p].version \in Version /\ Upto(proc[p].version - 1) \subseteq schema
      BY <2>1 DEF Inv, Progress
    <2>4. Progress(p)'
      BY <1>1, <2>2, <2>3, ScriptType DEF Progress
    <2>5. TypeOK'
      BY <1>1, <2>2, <1>4 DEF Inv, TypeOK, Begin, Proc
    <2> QED
      BY <1>1, <1>2, <1>3, <2>4, <2>5, Grows DEF Inv
  <1>5. CASE Exit(p)
    <2>1. /\ proc'[p] = [proc[p] EXCEPT !.pc = "ready", !.pending = {}]
          /\ proc[p].pc = "exit"
      BY <1>5 DEF Exit, Inv, TypeOK
    <2>2. proc'[p] \in Proc /\ proc'[p].pc = "ready" /\ proc'[p].pending = {}
      BY <1>1, <2>1 DEF Proc
    <2>3. Progress(p)'
      BY <1>1, <2>1, <2>2 DEF Progress, Inv
    <2>4. TypeOK'
      BY <1>1, <2>2, <1>5 DEF Inv, TypeOK, Exit, Proc
    <2> QED
      BY <1>1, <1>2, <1>3, <2>3, <2>4, Grows DEF Inv
  <1> QED
    BY <1>4, <1>5

LEMMA StatementKeeps ==
    ASSUME Inv, NEW p \in Process, Statement(p), lone' \subseteq Process
    PROVE  Inv'
  <1> DEFINE v == proc[p].version
             n == proc[p].line
             new == Script[v][n]
  <1>1. /\ proc[p] \in Proc /\ proc[p].pc = "script"
        /\ versions' = versions /\ stops' = stops
    BY DEF Inv, TypeOK, Statement
  <1>2. /\ v \in Version /\ Upto(v - 1) \subseteq schema
        /\ n \in 1..Len(Script[v]) /\ \A i \in 1..(n - 1) : Script[v][i] \in schema
    BY <1>1 DEF Inv, Progress
  <1>3. new \in Object
    BY <1>2, ScriptType
  <1>4. schema \subseteq schema' /\ schema' \subseteq Object
    BY <1>3 DEF Statement, Inv, TypeOK
  <1>5. VersionsFollowSchema'
    BY <1>1, <1>4 DEF Inv, VersionsFollowSchema
  <1>6. \A q \in Process \ {p} : proc'[q] = proc[q]
    BY DEF Inv, TypeOK, Statement, Ran
  <1>7. proc'[p] \in Proc /\ Progress(p)'
    <2>1. CASE proc' = [proc EXCEPT ![p].pc = "failed"]
      <3>1. proc'[p] = [proc[p] EXCEPT !.pc = "failed"]
        BY <2>1 DEF Inv, TypeOK
      <3>2. proc'[p] \in Proc /\ proc'[p].pc = "failed" /\ proc'[p].pending = proc[p].pending
        BY <1>1, <3>1 DEF Proc
      <3> QED
        BY <1>4, <3>2 DEF Progress, Inv
    <2>2. CASE Ran(p) /\ schema' = schema \cup {new} /\ n = Len(Script[v])
      <3>1. proc'[p] = [proc[p] EXCEPT !.pc = "insert"]
        BY <2>2 DEF Inv, TypeOK, Ran
      <3>2. /\ proc'[p] \in Proc /\ proc'[p].pc = "insert" /\ proc'[p].version = v
            /\ proc'[p].pending = proc[p].pending
        BY <1>1, <3>1 DEF Proc
      <3>3. \A i \in 1..Len(Script[v]) : Script[v][i] \in schema'
        <4> SUFFICES ASSUME NEW i \in 1..Len(Script[v]) PROVE Script[v][i] \in schema'
          OBVIOUS
        <4>1. i \in 1..(n - 1) \/ i = n
          BY <1>2, <2>2
        <4> QED
          BY <1>2, <1>4, <2>2, <4>1
      <3>4. Upto(v) \subseteq schema'
        BY <1>2, <1>4, <3>3, UptoStep DEF Created
      <3> QED
        BY <1>2, <1>4, <3>2, <3>4 DEF Progress, Inv
    <2>3. CASE Ran(p) /\ schema' = schema \cup {new} /\ n # Len(Script[v])
      <3>1. proc'[p] = [proc[p] EXCEPT !.line = n + 1]
        BY <2>3 DEF Inv, TypeOK, Ran
      <3>2. /\ proc'[p] \in Proc /\ proc'[p].pc = "script" /\ proc'[p].version = v
            /\ proc'[p].pending = proc[p].pending /\ proc'[p].line = n + 1
        BY <1>1, <3>1 DEF Proc
      <3>3. n + 1 \in 1..Len(Script[v]) /\ \A i \in 1..n : i \in 1..(n - 1) \/ i = n
        BY <1>2, <2>3, ScriptType
      <3>4. \A i \in 1..((n + 1) - 1) : Script[v][i] \in schema'
        BY <1>2, <1>4, <2>3, <3>3
      <3> QED
        BY <1>2, <1>4, <3>2, <3>3, <3>4 DEF Progress, Inv
    <2> QED
      BY <2>1, <2>2, <2>3 DEF Statement
  <1>8. TypeOK'
    BY <1>1, <1>4, <1>6, <1>7 DEF Inv, TypeOK, Statement, Ran
  <1> QED
    BY <1>4, <1>5, <1>6, <1>7, <1>8, Grows DEF Inv

LEMMA InsertKeeps ==
    ASSUME Inv, NEW p \in Process, Insert(p), lone' \subseteq Process
    PROVE  Inv'
  <1> DEFINE v == proc[p].version
             next == IF v + 1 \in Version THEN "begin" ELSE "exit"
  <1>1. /\ proc[p] \in Proc /\ proc[p].pc = "insert"
        /\ versions' = versions /\ stops' = stops /\ schema' = schema
    BY DEF Inv, TypeOK, Insert
  <1>2. v \in Version /\ Upto(v) \subseteq schema
    BY <1>1 DEF Inv, Progress
  <1>3. proc'[p] = [proc[p] EXCEPT !.pending = {v} \ versions, !.version = v + 1, !.pc = next]
    BY DEF Insert, Inv, TypeOK
  <1>4. v + 1 \in 1..(Len(Script) + 1) /\ (v + 1) - 1 = v
        /\ (v + 1 \notin Version => v = Len(Script))
    BY <1>2, MigrationsAssumption DEF Version
  <1>5. /\ proc'[p] \in Proc /\ proc'[p].pc = next /\ proc'[p].version = v + 1
        /\ proc'[p].pending = {v} \ versions
    <2>1. next \in {"begin", "exit"} /\ {v} \ versions \subseteq Version
      BY <1>2
    <2> HIDE DEF next
    <2> QED
      BY <1>1, <1>2, <1>3, <1>4, <2>1 DEF Proc
  <1>6. Progress(p)'
    BY <1>1, <1>2, <1>4, <1>5, UptoAll DEF Progress
  <1>7. \A q \in Process \ {p} : proc'[q] = proc[q]
    BY DEF Inv, TypeOK, Insert
  <1>8. TypeOK'
    BY <1>1, <1>5, <1>7 DEF Inv, TypeOK, Insert
  <1>9. VersionsFollowSchema'
    BY <1>1 DEF Inv, VersionsFollowSchema
  <1> QED
    BY <1>1, <1>6, <1>7, <1>8, <1>9, Grows DEF Inv

LEMMA StopKeeps ==
    ASSUME Inv, NEW p \in Process, Stop(p), lone' \subseteq Process
    PROVE  Inv'
  <1>1. /\ proc[p] \in Proc
        /\ versions' = versions /\ schema' = schema
        /\ proc'[p] = [proc[p] EXCEPT !.pc = "off", !.pending = {}]
    BY DEF Inv, TypeOK, Stop
  <1>2. proc'[p] \in Proc /\ proc'[p].pc = "off" /\ proc'[p].pending = {}
    BY <1>1 DEF Proc
  <1>3. stops' \in 0..MaxStops
    BY MigrationsAssumption DEF Stop, Inv, TypeOK
  <1>4. TypeOK'
    BY <1>1, <1>2, <1>3 DEF Inv, TypeOK, Stop
  <1>5. \A q \in Process \ {p} : proc'[q] = proc[q]
    BY DEF Inv, TypeOK, Stop
  <1> QED
    BY <1>1, <1>2, <1>4, <1>5, Grows DEF Inv, Progress, VersionsFollowSchema

(* Every step keeps the invariant. *)
LEMMA NextKeeps == Inv /\ [Next]_vars => Inv'
  <1> SUFFICES ASSUME Inv, [Next]_vars PROVE Inv'
    OBVIOUS
  <1>1. CASE UNCHANGED vars
    BY <1>1 DEF vars, Inv, TypeOK, VersionsFollowSchema, Progress
  <1>2. ASSUME NEW p \in Process, lone' \subseteq Process,
               Start(p) \/ Begin(p) \/ Statement(p) \/ Insert(p) \/ Exit(p) \/ Stop(p)
        PROVE  Inv'
    BY <1>2, StartKeeps, CommitKeeps, StatementKeeps, InsertKeeps, StopKeeps
  <1> QED
    BY <1>1, <1>2 DEF Next, Inv, TypeOK

LEMMA SpecInv == Spec => []Inv
  BY InitInv, NextKeeps, PTL DEF Spec

-----------------------------------------------------------------------------
(* Starts that nobody disturbs.                                            *)

(* p has run a statement of v, and has not yet inserted its version.       *)
Half(p, v) ==
    /\ proc[p].version = v
    /\ proc[p].pc = "insert" \/ (proc[p].pc = "script" /\ proc[p].line > 1)

Hard == Version \ IfNotExists

(* The first column of a migration is added first, by one process only,    *)
(* which finds none of the others.                                         *)
OneAtATime ==
    \A v \in Hard :
       /\ Script[v][1] \in schema \/ Created(v) \cap schema = {}
       /\ \A p, q \in Process : Half(p, v) /\ Half(q, v) => p = q
       /\ \A p \in Process :
             Half(p, v) /\ proc[p].pc = "script" =>
                \A j \in proc[p].line..Len(Script[v]) : Script[v][j] \notin schema

(* A row is pending only between an INSERT and the commit that follows.    *)
PendingShort ==
    \A p \in Process :
       /\ proc[p].pending # {} => proc[p].pc \in {"begin", "exit"}
       /\ \A w \in proc[p].pending : w < proc[p].version

Alone ==
    \A p \in lone :
       /\ \A q \in Process \ {p} : ~Busy(q)
       /\ Busy(p) => \A w \in versions : w < proc[p].version
       /\ proc[p].pc = "failed" => Torn

StartInv == OneAtATime /\ PendingShort /\ Alone /\ (stops = 0 => ~Torn)

LEMMA HalfAtWork ==
    ASSUME NEW p \in Process, NEW v \in Version
    PROVE  AtWork(p, v) <=> v \in proc[p].pending \/ Half(p, v)
  BY DEF AtWork, Half

LEMMA FirstLine ==
    ASSUME NEW v \in Version
    PROVE  1 \in 1..Len(Script[v]) /\ Script[v][1] \in Created(v)
  BY ScriptType

(* A process that is half way has added the first column.                  *)
LEMMA HalfFirst ==
    ASSUME Inv, NEW p \in Process, NEW v \in Version, Half(p, v)
    PROVE  Script[v][1] \in schema
  <1>1. CASE proc[p].pc = "insert"
    <2>1. Upto(v) \subseteq schema
      BY <1>1 DEF Inv, Progress, Half
    <2> QED
      BY <2>1, FirstLine, UptoStep
  <1>2. CASE proc[p].pc = "script" /\ proc[p].line > 1
    <2>1. proc[p].line \in Nat /\ 1 \in 1..(proc[p].line - 1)
      BY <1>2 DEF Inv, TypeOK, Proc
    <2> QED
      BY <1>2, <2>1 DEF Inv, Progress, Half
  <1> QED
    BY <1>1, <1>2 DEF Half

(* What each step does to the process that takes it.                       *)
Starts(p) ==
    /\ proc[p].pc \in {"off", "failed"} /\ proc'[p].pc \in {"begin", "ready"}
    /\ proc'[p].pending = {} /\ \A w \in versions : w < proc'[p].version
    /\ schema' = schema /\ versions' = versions

Commits(p) ==
    /\ \/ proc[p].pc = "begin" /\ proc'[p].pc = "script" /\ proc'[p].line = 1
       \/ proc[p].pc = "exit" /\ proc'[p].pc = "ready"
    /\ proc'[p].pending = {} /\ proc'[p].version = proc[p].version
    /\ schema' = schema /\ versions' = versions \cup proc[p].pending

Fails(p) ==
    /\ proc[p].pc = "script" /\ proc'[p].pc = "failed"
    /\ proc[p].version \notin IfNotExists
    /\ Script[proc[p].version][proc[p].line] \in schema
    /\ proc'[p].pending = proc[p].pending /\ proc'[p].version = proc[p].version
    /\ schema' = schema /\ versions' = versions

Runs(p) ==
    LET v == proc[p].version  new == Script[v][proc[p].line] IN
    /\ proc[p].pc = "script" /\ (new \notin schema \/ v \in IfNotExists)
    /\ schema' = schema \cup {new} /\ versions' = versions
    /\ proc'[p].pending = proc[p].pending /\ proc'[p].version = v
    /\ \/ proc[p].line = Len(Script[v]) /\ proc'[p].pc = "insert"
       \/ proc'[p].pc = "script" /\ proc'[p].line = proc[p].line + 1

Inserts(p) ==
    /\ proc[p].pc = "insert" /\ proc'[p].pc \in {"begin", "exit"}
    /\ proc'[p].pending = {proc[p].version} \ versions
    /\ proc'[p].version = proc[p].version + 1
    /\ schema' = schema /\ versions' = versions

Stopped(p) ==
    /\ proc'[p].pc = "off" /\ proc'[p].pending = {}
    /\ schema' = schema /\ versions' = versions

LEMMA StepOfProcess ==
    ASSUME TypeOK, NEW p \in Process
    PROVE  /\ Start(p) => Starts(p)
           /\ Begin(p) \/ Exit(p) => Commits(p)
           /\ Statement(p) => Fails(p) \/ Runs(p)
           /\ Insert(p) => Inserts(p)
           /\ Stop(p) => Stopped(p) /\ stops' > 0
           /\ Start(p) \/ Begin(p) \/ Exit(p) \/ Statement(p) \/ Insert(p) \/ Stop(p)
                 => \A q \in Process \ {p} : proc'[q] = proc[q]
  <1>1. proc \in [Process -> Proc] /\ proc[p] \in Proc
    BY DEF TypeOK
  <1>2. Start(p) => Starts(p)
    <2> SUFFICES ASSUME Start(p) PROVE Starts(p)
      OBVIOUS
    <2>1. PICK current \in versions \cup {0} :
             /\ \A w \in versions : w <= current
             /\ proc' = [proc EXCEPT ![p] =
                  [pc |-> IF current + 1 \in Version THEN "begin" ELSE "ready",
                   version |-> current + 1, line |-> 1, pending |-> {}]]
      BY DEF Start
    <2>2. proc'[p] = [pc |-> IF current + 1 \in Version THEN "begin" ELSE "ready",
                      version |-> current + 1, line |-> 1, pending |-> {}]
      BY <1>1, <2>1
    <2>3. current \in Nat /\ \A w \in versions : w \in Nat
      BY MigrationsAssumption DEF TypeOK, Version
    <2> QED
      BY <2>1, <2>2, <2>3 DEF Starts, Start
  <1>3. Begin(p) => Commits(p)
    <2> SUFFICES ASSUME Begin(p) PROVE Commits(p)
      OBVIOUS
    <2>1. proc'[p] = [proc[p] EXCEPT !.pc = "script", !.line = 1, !.pending = {}]
      BY <1>1 DEF Begin
    <2> QED
      BY <1>1, <2>1 DEF Commits, Begin, Proc
  <1>4. Exit(p) => Commits(p)
    <2> SUFFICES ASSUME Exit(p) PROVE Commits(p)
      OBVIOUS
    <2>1. proc'[p] = [proc[p] EXCEPT !.pc = "ready", !.pending = {}]
      BY <1>1 DEF Exit
    <2> QED
      BY <1>1, <2>1 DEF Commits, Exit, Proc
  <1>5. Statement(p) => Fails(p) \/ Runs(p)
    <2> SUFFICES ASSUME Statement(p) PROVE Fails(p) \/ Runs(p)
      OBVIOUS
    <2> DEFINE v == proc[p].version
    <2>1. CASE proc' = [proc EXCEPT ![p].pc = "failed"] /\ UNCHANGED schema
               /\ Script[v][proc[p].line] \in schema /\ v \notin IfNotExists
      <3>1. proc'[p] = [proc[p] EXCEPT !.pc = "failed"]
        BY <1>1, <2>1
      <3> QED
        BY <1>1, <2>1, <3>1 DEF Fails, Statement, Proc
    <2>2. CASE Ran(p) /\ schema' = schema \cup {Script[v][proc[p].line]}
               /\ (Script[v][proc[p].line] \notin schema \/ v \in IfNotExists)
      <3>1. proc'[p] = IF proc[p].line = Len(Script[v]) THEN [proc[p] EXCEPT !.pc = "insert"]
                       ELSE [proc[p] EXCEPT !.line = proc[p].line + 1]
        BY <1>1, <2>2 DEF Ran
      <3>2. CASE proc[p].line = Len(Script[v])
        <4>1. proc'[p] = [proc[p] EXCEPT !.pc = "insert"]
          BY <3>1, <3>2
        <4> QED
          BY <1>1, <2>2, <3>2, <4>1 DEF Runs, Statement, Proc
      <3>3. CASE proc[p].line # Len(Script[v])
        <4>1. proc'[p] = [proc[p] EXCEPT !.line = proc[p].line + 1]
          BY <3>1, <3>3
        <4> QED
          BY <1>1, <2>2, <4>1 DEF Runs, Statement, Proc
      <3> QED
        BY <3>2, <3>3
    <2> QED
      BY <2>1, <2>2 DEF Statement
  <1>6. Insert(p) => Inserts(p)
    <2> SUFFICES ASSUME Insert(p) PROVE Inserts(p)
      OBVIOUS
    <2> DEFINE next == IF proc[p].version + 1 \in Version THEN "begin" ELSE "exit"
    <2>1. proc'[p] = [proc[p] EXCEPT !.pending = {proc[p].version} \ versions,
                                     !.version = proc[p].version + 1, !.pc = next]
      BY <1>1 DEF Insert
    <2>2. next \in {"begin", "exit"}
      OBVIOUS
    <2> HIDE DEF next
    <2> QED
      BY <1>1, <2>1, <2>2 DEF Inserts, Insert, Proc
  <1>7. Stop(p) => Stopped(p) /\ stops' > 0
    <2> SUFFICES ASSUME Stop(p) PROVE Stopped(p) /\ stops' > 0
      OBVIOUS
    <2>1. proc'[p] = [proc[p] EXCEPT !.pc = "off", !.pending = {}]
      BY <1>1 DEF Stop
    <2>2. stops' > 0
      BY MigrationsAssumption DEF Stop, TypeOK
    <2> QED
      BY <1>1, <2>1, <2>2 DEF Stopped, Stop, Proc
  <1>8. Start(p) \/ Begin(p) \/ Exit(p) \/ Statement(p) \/ Insert(p) \/ Stop(p)
           => \A q \in Process \ {p} : proc'[q] = proc[q]
    BY <1>1 DEF Start, Begin, Exit, Statement, Ran, Insert, Stop
  <1> QED
    BY <1>2, <1>3, <1>4, <1>5, <1>6, <1>7, <1>8

(* A process takes a step, of which only what matters here is kept.        *)
StepsOf(p) ==
    /\ Starts(p) \/ Commits(p) \/ Fails(p) \/ Runs(p) \/ Inserts(p) \/ Stopped(p)
    /\ \A q \in Process \ {p} : proc'[q] = proc[q]

(* Nobody gets half way but by running a statement.                        *)
LEMMA HalfBefore ==
    ASSUME Inv, NEW p \in Process, StepsOf(p), ~Runs(p), NEW q \in Process, NEW v \in Version,
           Half(q, v)'
    PROVE  Half(q, v) /\ proc'[q].version = proc[q].version
           /\ (proc'[q].pc = "script" => q # p)
  BY DEF StepsOf, Starts, Commits, Fails, Inserts, Stopped, Half, Inv, TypeOK, Proc

LEMMA OneAtATimeKept ==
    ASSUME Inv, OneAtATime, NEW p \in Process, StepsOf(p), Inv'
    PROVE  OneAtATime'
  <1> DEFINE w   == proc[p].version
             n   == proc[p].line
             new == Script[w][n]
  <1>1. CASE ~Runs(p)
    <2>1. schema' = schema
      BY <1>1 DEF StepsOf, Starts, Commits, Fails, Inserts, Stopped
    <2>2. ASSUME NEW v \in Hard
          PROVE  /\ Script[v][1] \in schema' \/ Created(v) \cap schema' = {}
                 /\ \A q, r \in Process : Half(q, v)' /\ Half(r, v)' => q = r
                 /\ \A q \in Process :
                       Half(q, v)' /\ proc'[q].pc = "script" =>
                          \A j \in proc'[q].line..Len(Script[v]) : Script[v][j] \notin schema'
      <3>0. v \in Version
        BY DEF Hard
      <3>1. \A q \in Process : Half(q, v)' => Half(q, v) /\ (proc'[q].pc = "script" => q # p)
        BY <1>1, <3>0, HalfBefore
      <3>2. \A q \in Process \ {p} : proc'[q] = proc[q]
        BY DEF StepsOf
      <3> QED
        BY <2>1, <3>1, <3>2 DEF OneAtATime
    <2> QED
      BY <2>2 DEF OneAtATime, Half, Hard, Version, Created
  <1>2. CASE Runs(p)
    <2>1. /\ schema' = schema \cup {new} /\ proc'[p].version = w
          /\ w \in Version /\ n \in 1..Len(Script[w])
          /\ \A i \in 1..(n - 1) : Script[w][i] \in schema
          /\ new \notin schema \/ w \in IfNotExists
          /\ \/ n = Len(Script[w]) /\ proc'[p].pc = "insert"
             \/ proc'[p].pc = "script" /\ proc'[p].line = n + 1
      BY <1>2 DEF Runs, Inv, Progress
    <2>2. new \in Created(w) /\ Len(Script[w]) \in Nat /\ n \in Nat
      BY <2>1, ScriptType
    <2>3. n > 1 => Half(p, w)
      BY <1>2 DEF Half, Runs
    <2>4. ASSUME NEW v \in Hard
          PROVE  /\ Script[v][1] \in schema' \/ Created(v) \cap schema' = {}
                 /\ \A q, r \in Process : Half(q, v)' /\ Half(r, v)' => q = r
                 /\ \A q \in Process :
                       Half(q, v)' /\ proc'[q].pc = "script" =>
                          \A j \in proc'[q].line..Len(Script[v]) : Script[v][j] \notin schema'
      <3>1. v \in Version /\ v \notin IfNotExists
        BY DEF Hard
      <3>2. \A q \in Process \ {p} : proc'[q] = proc[q] /\ (Half(q, v)' <=> Half(q, v))
        BY DEF StepsOf, Half
      <3>3. CASE v # w
        <4>1. Created(v) \cap Created(w) = {} /\ Created(v) \cap schema' = Created(v) \cap schema
          BY <2>1, <2>2, <3>1, <3>3, ColumnsAssumption
        <4>2. ~Half(p, v)'
          BY <2>1, <3>3 DEF Half
        <4>3. \A j \in 1..Len(Script[v]) : Script[v][j] \in Created(v)
          BY <3>1, ScriptType
        <4>4. \A q \in Process : Half(q, v) /\ proc[q].pc = "script" => proc[q].line \in 1..Len(Script[v])
          BY DEF Half, Inv, Progress
        <4>5. Script[v][1] \in schema' \/ Created(v) \cap schema' = {}
          BY <4>1, <2>1 DEF OneAtATime
        <4>6. \A q, r \in Process : Half(q, v)' /\ Half(r, v)' => q = r
          BY <3>2, <4>2 DEF OneAtATime
        <4>7. ASSUME NEW q \in Process, Half(q, v)', proc'[q].pc = "script",
                     NEW j \in proc'[q].line..Len(Script[v])
              PROVE  Script[v][j] \notin schema'
          <5>1. q # p /\ Half(q, v) /\ proc[q] = proc'[q]
            BY <3>2, <4>2, <4>7
          <5>2. proc[q].line \in 1..Len(Script[v]) /\ Len(Script[v]) \in Nat
            BY <3>1, <4>4, <4>7, <5>1, ScriptType
          <5>3. j \in 1..Len(Script[v])
            BY <4>7, <5>1, <5>2
          <5>4. Script[v][j] \notin schema
            BY <4>7, <5>1 DEF OneAtATime
          <5> QED
            BY <4>1, <4>3, <5>3, <5>4
        <4> QED
          BY <4>5, <4>6, <4>7
      <3>4. CASE v = w
        <4>1. \A i, j \in 1..Len(Script[w]) : Script[w][i] = Script[w][j] => i = j
          BY <3>1, <3>4, ColumnsAssumption
        <4>2. new \notin schema
          BY <2>1, <3>1, <3>4
        <4>3. n = 1 => Created(w) \cap schema = {} /\ \A q \in Process : ~Half(q, w)
          <5>1. n = 1 => Created(w) \cap schema = {}
            BY <4>2, <3>4 DEF OneAtATime
          <5> QED
            BY <5>1, <2>1, FirstLine, HalfFirst
        <4>4. \A q \in Process \ {p} : ~Half(q, w)
          <5>1. CASE n = 1
            BY <4>3, <5>1
          <5>2. CASE n # 1
            <6>1. Half(p, w)
              BY <2>1, <2>2, <2>3, <5>2
            <6> QED
              BY <6>1, <3>4 DEF OneAtATime
          <5> QED
            BY <5>1, <5>2
        <4>5. Script[v][1] \in schema'
          <5>1. CASE n = 1
            BY <2>1, <3>4, <5>1
          <5>2. CASE n # 1
            BY <2>1, <2>2, <3>4, <5>2
          <5> QED
            BY <5>1, <5>2
        <4>6. \A q \in Process \ {p} : ~Half(q, v)'
          BY <3>2, <3>4, <4>4
        <4>7. \A j \in (n + 1)..Len(Script[w]) : Script[w][j] \notin schema'
          <5> SUFFICES ASSUME NEW j \in (n + 1)..Len(Script[w]) PROVE Script[w][j] \notin schema'
            OBVIOUS
          <5>1. j \in 1..Len(Script[w]) /\ j # n /\ j \in n..Len(Script[w])
            BY <2>1, <2>2
          <5>2. Script[w][j] # new
            BY <2>1, <4>1, <5>1
          <5>3. Script[w][j] \notin schema
            <6>1. CASE n = 1
              BY <4>3, <6>1, <5>1, <2>1, ScriptType
            <6>2. CASE n # 1
              <7>1. Half(p, w) /\ proc[p].pc = "script"
                BY <1>2, <2>1, <2>2, <2>3, <6>2 DEF Runs
              <7> QED
                BY <7>1, <5>1, <3>4 DEF OneAtATime
            <6> QED
              BY <6>1, <6>2
          <5> QED
            BY <2>1, <5>2, <5>3
        <4> QED
          BY <2>1, <3>4, <4>5, <4>6, <4>7
      <3> QED
        BY <3>3, <3>4
    <2> QED
      BY <2>4 DEF OneAtATime, Half, Hard, Version, Created
  <1> QED
    BY <1>1, <1>2

LEMMA PendingKept ==
    ASSUME Inv, PendingShort, NEW p \in Process, StepsOf(p)
    PROVE  PendingShort'
  <1>1. ASSUME NEW q \in Process
        PROVE  /\ proc'[q].pending # {} => proc'[q].pc \in {"begin", "exit"}
               /\ \A w \in proc'[q].pending : w < proc'[q].version
    <2>1. CASE q # p
      BY <2>1 DEF StepsOf, PendingShort
    <2>2. CASE q = p
      <3>1. proc[p].version \in Nat
        BY MigrationsAssumption DEF Inv, TypeOK, Proc
      <3> QED
        BY <2>2, <3>1 DEF StepsOf, PendingShort, Starts, Commits, Fails, Runs, Inserts, Stopped
    <2> QED
      BY <2>1, <2>2
  <1> QED
    BY <1>1 DEF PendingShort

(* Only a stop tears a migration.                                          *)
LEMMA UntornKept ==
    ASSUME Inv, Inv', OneAtATime, PendingShort, NEW p \in Process, StepsOf(p),
           Stopped(p) => stops' > 0, stops' = 0 => stops = 0, stops = 0 => ~Torn, stops' = 0
    PROVE  ~Torn'
  <1> SUFFICES ASSUME NEW v \in Version, v \notin versions' \cup IfNotExists,
                      Created(v) \cap schema' # {}
               PROVE  \E q \in Process : AtWork(q, v)'
    BY DEF Torn, Version, Created
  <1>0. /\ Starts(p) \/ Commits(p) \/ Fails(p) \/ Runs(p) \/ Inserts(p)
        /\ \A q \in Process \ {p} : proc'[q] = proc[q]
        /\ v \notin versions
    BY DEF StepsOf, Starts, Commits, Fails, Runs, Inserts, Stopped
  <1>w. \A q \in Process \ {p} : AtWork(q, v) => AtWork(q, v)'
    BY <1>0 DEF AtWork
  <1>h. \A q \in Process : AtWork(q, v) <=> v \in proc[q].pending \/ Half(q, v)
    BY HalfAtWork
  <1>1. CASE Runs(p) /\ proc[p].version = v
    <2>1. proc[p].line \in Nat /\ proc[p].line > 0
      BY <1>1, ScriptType DEF Runs, Inv, Progress
    <2> QED
      BY <1>1, <2>1 DEF Runs, AtWork
  <1>2. CASE ~(Runs(p) /\ proc[p].version = v)
    <2>1. Created(v) \cap schema # {}
      <3>1. CASE Runs(p)
        <4>1. /\ proc[p].version \in Version \ {v}
              /\ Script[proc[p].version][proc[p].line] \in Created(proc[p].version)
          BY <1>2, <3>1, ScriptType DEF Runs, Inv, Progress
        <4>2. Created(v) \cap Created(proc[p].version) = {}
          BY <4>1, ColumnsAssumption
        <4> QED
          BY <3>1, <4>1, <4>2 DEF Runs
      <3>2. CASE ~Runs(p)
        BY <1>0, <3>2 DEF Starts, Commits, Fails, Inserts
      <3> QED
        BY <3>1, <3>2
    <2>2. PICK q \in Process : AtWork(q, v)
      BY <1>0, <2>1 DEF Torn
    <2>3. CASE q # p
      BY <1>w, <2>2, <2>3
    <2>4. CASE q = p
      <3>1. v \in proc[p].pending \/ Half(p, v)
        BY <1>h, <2>2, <2>4
      <3>2. CASE Commits(p)
        BY <3>1, <3>2 DEF Commits, Half
      <3>3. CASE Starts(p)
        BY <3>1, <3>3 DEF Starts, Half, PendingShort
      <3>4. CASE Runs(p)
        BY <1>2, <3>1, <3>4 DEF Runs, Half, PendingShort
      <3>5. CASE Inserts(p)
        BY <1>0, <3>1, <3>5 DEF Inserts, Half, PendingShort, AtWork
      <3>6. CASE Fails(p)
        <4>1. Half(p, v) /\ proc[p].pc = "script"
          BY <3>1, <3>6 DEF Fails, PendingShort
        <4>2. proc[p].line \in 1..Len(Script[v]) /\ Len(Script[v]) \in Nat
          BY <4>1, ScriptType DEF Half, Inv, Progress
        <4>3. v \in Hard /\ proc[p].line \in proc[p].line..Len(Script[v])
          BY <4>2 DEF Hard
        <4>4. Script[v][proc[p].line] \notin schema
          BY <4>1, <4>3 DEF OneAtATime
        <4> QED
          BY <3>6, <4>1, <4>4 DEF Fails, Half
      <3> QED
        BY <1>0, <3>2, <3>3, <3>4, <3>5, <3>6
    <2> QED
      BY <2>3, <2>4
  <1> QED
    BY <1>1, <1>2

(* A process that is alone and not starting stays so until another starts. *)
LEMMA AloneKept ==
    ASSUME Inv, PendingShort, PendingShort', Alone, NEW p \in Process, StepsOf(p), ~Starts(p),
           lone' = lone, Inv'
    PROVE  Alone'
  <1> SUFFICES ASSUME NEW r \in lone
               PROVE  /\ \A q \in Process \ {r} : ~Busy(q)'
                      /\ Busy(r)' => \A w \in versions' : w < proc'[r].version
                      /\ proc'[r].pc = "failed" => Torn'
    BY DEF Alone, Busy, Torn, AtWork, Created, Version
  <1>0. /\ r \in Process
        /\ \A q \in Process \ {r} : ~Busy(q)
        /\ Busy(r) => \A w \in versions : w < proc[r].version
        /\ proc[r].pc = "failed" => Torn
        /\ \A q \in Process \ {p} : proc'[q] = proc[q]
    BY DEF Alone, Inv, TypeOK, StepsOf
  <1>1. CASE p # r
    <2>1. Stopped(p)
      BY <1>0, <1>1 DEF StepsOf, Commits, Fails, Runs, Inserts, Busy
    <2>2. \A q \in Process \ {r} : ~Busy(q)'
      BY <1>0, <2>1 DEF Stopped, Busy
    <2>3. \A v \in Version, q \in Process : AtWork(q, v)' => AtWork(q, v)
      BY <1>0, <2>1 DEF AtWork, Stopped
    <2>4. Torn => Torn'
      BY <2>1, <2>3 DEF Torn, Stopped, Version, Created
    <2> QED
      BY <1>0, <1>1, <2>1, <2>2, <2>4 DEF Stopped, Busy
  <1>2. CASE p = r
    <2>1. \A q \in Process \ {r} : ~Busy(q)'
      BY <1>0, <1>2 DEF Busy
    <2>2. Busy(r)' => \A w \in versions' : w < proc'[r].version
      <3>1. proc[r].version \in Nat /\ \A w \in versions : w \in Nat
        BY <1>0, MigrationsAssumption DEF Inv, TypeOK, Proc, Version
      <3> QED
        BY <1>0, <1>2, <3>1
           DEF StepsOf, Commits, Fails, Runs, Inserts, Stopped, Busy, PendingShort
    <2>3. ASSUME proc'[r].pc = "failed" PROVE Torn'
      <3>1. Fails(r)
        BY <1>2, <2>3 DEF StepsOf, Commits, Runs, Inserts, Stopped
      <3>0. PICK v : v = proc[r].version
        OBVIOUS
      <3>2. v \in Version /\ v \notin IfNotExists /\ Script[v][proc[r].line] \in Created(v)
        BY <1>0, <3>0, <3>1, ScriptType DEF Fails, Inv, Progress
      <3>3. v \notin versions' /\ Created(v) \cap schema' # {}
        <4>1. v \notin versions
          BY <1>0, <3>0, <3>1, <3>2 DEF Fails, Busy, Version
        <4> QED
          BY <3>0, <3>1, <3>2, <4>1 DEF Fails
      <3>4. \A q \in Process : ~AtWork(q, v)'
        BY <1>0, <2>1, <2>3 DEF AtWork, PendingShort, Busy
      <3> QED
        BY <3>2, <3>3, <3>4 DEF Torn, Version, Created
    <2> QED
      BY <2>1, <2>2, <2>3
  <1> QED
    BY <1>1, <1>2

LEMMA StartInvNext == Inv /\ StartInv /\ [Next]_vars /\ Inv' => StartInv'
  <1> SUFFICES ASSUME Inv, StartInv, [Next]_vars, Inv' PROVE StartInv'
    OBVIOUS
  <1>1. CASE UNCHANGED vars
    BY <1>1 DEF vars, StartInv, OneAtATime, PendingShort, Alone, Torn, AtWork, Half, Busy,
                Created, Hard, Version
  <1>2. ASSUME NEW p \in Process, Start(p),
               lone' = IF \E q \in Process : Busy(q) THEN {} ELSE {p}
        PROVE  StartInv'
    <2>1. Starts(p) /\ StepsOf(p) /\ stops' = stops
      BY <1>2, StepOfProcess DEF Inv, StepsOf, Start
    <2>2. OneAtATime' /\ PendingShort'
      BY <2>1, OneAtATimeKept, PendingKept DEF StartInv
    <2>3. ~Stopped(p)
      BY <2>1 DEF Starts, Stopped
    <2>4. stops' = 0 => ~Torn'
      BY <2>1, <2>3, UntornKept DEF StartInv
    <2>5. Alone'
      <3> SUFFICES ASSUME lone' = {p}, \A q \in Process : ~Busy(q)
                   PROVE  /\ \A q \in Process \ {p} : ~Busy(q)'
                          /\ \A w \in versions' : w < proc'[p].version
                          /\ proc'[p].pc # "failed"
        BY <1>2 DEF Alone, Busy
      <3> QED
        BY <2>1 DEF StepsOf, Starts, Busy
    <2> QED
      BY <2>2, <2>4, <2>5 DEF StartInv
  <1>3. ASSUME NEW p \in Process, lone' = lone,
               Begin(p) \/ Statement(p) \/ Insert(p) \/ Exit(p) \/ Stop(p)
        PROVE  StartInv'
    <2>1. /\ StepsOf(p) /\ ~Starts(p)
          /\ stops' = stops \/ (stops' > 0 /\ stops' # 0)
          /\ Stopped(p) => stops' > 0
      <3>1. Begin(p) => stops' = stops /\ proc'[p].pc = "script"
        BY DEF Begin, Inv, TypeOK
      <3>2. stops \in Nat /\ (Exit(p) => stops' = stops)
        BY MigrationsAssumption DEF Inv, TypeOK, Exit
      <3>3. Stop(p) => stops' > 0 /\ stops' # 0 /\ Stopped(p)
        <4>1. Stop(p) => stops' > 0 /\ Stopped(p)
          BY StepOfProcess DEF Inv
        <4>2. Stop(p) => stops' # 0
          BY <3>2 DEF Stop
        <4> QED
          BY <4>1, <4>2
      <3>4. Statement(p) \/ Insert(p) => stops' = stops
        BY DEF Statement, Insert
      <3>5. ~Stop(p) => Commits(p) \/ Fails(p) \/ Runs(p) \/ Inserts(p)
        BY <1>3, StepOfProcess DEF Inv
      <3>6. StepsOf(p)
        BY <1>3, <3>3, <3>5, StepOfProcess DEF Inv, StepsOf
      <3>7. ~Stop(p) => ~Starts(p) /\ ~Stopped(p)
        BY <3>5 DEF Commits, Fails, Runs, Inserts, Starts, Stopped
      <3>8. Stop(p) => ~Starts(p)
        BY <3>3 DEF Starts, Stopped
      <3> QED
        BY <1>3, <3>1, <3>2, <3>3, <3>4, <3>6, <3>7, <3>8
    <2>2. OneAtATime' /\ PendingShort'
      BY <2>1, OneAtATimeKept, PendingKept DEF StartInv
    <2>3. stops' = 0 => ~Torn'
      BY <2>1, UntornKept DEF StartInv
    <2>4. Alone'
      BY <1>3, <2>1, <2>2, AloneKept DEF StartInv
    <2> QED
      BY <2>2, <2>3, <2>4 DEF StartInv
  <1> QED
    BY <1>1, <1>2, <1>3 DEF Next

LEMMA StartInvInit == Init => StartInv
  <1> SUFFICES ASSUME Init PROVE StartInv
    OBVIOUS
  <1>1. PICK db \in Database : schema = db.schema /\ versions = db.versions
    BY DEF Init
  <1>2. /\ \A p \in Process : proc[p].pc = "off" /\ proc[p].pending = {}
        /\ lone = {}
    BY DEF Init
  <1>3. ASSUME NEW v \in Hard
        PROVE  /\ Script[v][1] \in schema \/ Created(v) \cap schema = {}
               /\ v \in versions \/ Created(v) \cap schema = {}
    <2>1. v \in Version /\ (v \in db.versions \/ Created(v) \cap db.schema = {})
      BY ColumnsAssumption DEF Hard
    <2>2. v \in db.versions => Upto(v) \subseteq db.schema
      BY MigrationsAssumption
    <2> QED
      BY <1>1, <2>1, <2>2, UptoStep, FirstLine
  <1>4. ~Torn
    BY <1>3 DEF Torn, Hard
  <1> QED
    BY <1>2, <1>3, <1>4 DEF StartInv, OneAtATime, PendingShort, Alone, Half

-----------------------------------------------------------------------------
(* The variables keep their types, for any migrations (store.py:115).      *)
THEOREM MigrationsTypeCorrect == Spec => []TypeOK
  <1>1. Inv => TypeOK
    BY DEF Inv
  <1> QED
    BY <1>1, SpecInv, PTL

(* schema_migrations never claims more than was done, whatever processes   *)
(* race and wherever they are stopped, although init_db has no transaction *)
(* around a migration.                                                     *)
THEOREM VersionsFollowSchemaHolds == Spec => []VersionsFollowSchema
  <1>1. Inv => VersionsFollowSchema
    BY DEF Inv
  <1> QED
    BY <1>1, SpecInv, PTL

(* A process that init_db let through finds every table and column.        *)
THEOREM ReadySchemaHolds == Spec => []ReadySchema
  <1>1. Inv => ReadySchema
    BY DEF Inv, Progress, ReadySchema
  <1> QED
    BY <1>1, SpecInv, PTL
(* However often starts failed on one another or were stopped, the next    *)
(* one that has init_db to itself gets through, unless a stop (and never a *)
(* race) left a migration half applied.                                    *)
THEOREM LoneStartSucceedsHolds == Spec => []LoneStartSucceeds
  <1>1. Inv /\ StartInv => LoneStartSucceeds
    <2> SUFFICES ASSUME Inv, StartInv, NEW p \in lone, proc[p].pc = "failed"
                 PROVE  stops > 0 /\ Torn
      BY DEF LoneStartSucceeds
    <2>1. Torn
      BY DEF StartInv, Alone
    <2>2. stops \in Nat /\ stops # 0
      BY <2>1, MigrationsAssumption DEF Inv, TypeOK, StartInv
    <2> QED
      BY <2>1, <2>2
  <1> QED
    BY <1>1, SpecInv, StartInvInit, StartInvNext, PTL DEF Spec
=============================================================================
