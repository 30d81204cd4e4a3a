----------------------------- MODULE Migrations -----------------------------
(***************************************************************************)
(* init_db (store.py:121): every process of the control plane that starts  *)
(* brings the database up to date.  Python's sqlite3 runs each statement   *)
(* of executescript in a transaction of its own, after committing the open *)
(* one; the INSERT of a version opens a transaction, which holds the write *)
(* lock until it is committed.                                             *)
(***************************************************************************)
EXTENDS Integers, Sequences

CONSTANTS
    Process,        \* processes that call init_db
    Script,         \* Script[v]: what the statements of migration v create, in order
    IfNotExists,    \* the migrations whose statements say IF NOT EXISTS
    Database,       \* the databases of the field: [schema, versions]
    MaxStops        \* bound: how often a process is stopped

VARIABLES
    schema,         \* the tables and columns there are
    versions,       \* the committed rows of schema_migrations
    proc,           \* proc[p]: where process p is in init_db
    stops,
    lone            \* history: the process that started last, if no other was in init_db

vars == <<schema, versions, proc, stops, lone>>

Version == 1..Len(Script)
Created(v) == {Script[v][i] : i \in 1..Len(Script[v])}
Object == UNION {Created(v) : v \in Version}
(* What a database at version v has. *)
Upto(v) == UNION {Created(w) : w \in 1..v}

ASSUME MigrationsAssumption ==
    /\ Script \in Seq(Seq(Object)) /\ \A v \in Version : Len(Script[v]) > 0
    /\ MaxStops \in Nat
    /\ Database \subseteq [schema: SUBSET Object, versions: SUBSET Version]
    /\ \A db \in Database : \A v \in db.versions : Upto(v) \subseteq db.schema

(* A column is added by one statement of one migration, and no database of *)
(* the field has a part of a migration that cannot be run again.           *)
ASSUME ColumnsAssumption ==
    \A v \in Version \ IfNotExists :
       /\ \A i, j \in 1..Len(Script[v]) : Script[v][i] = Script[v][j] => i = j
       /\ \A w \in Version \ {v} : Created(v) \cap Created(w) = {}
       /\ \A db \in Database : v \in db.versions \/ Created(v) \cap db.schema = {}

Proc == [pc: {"off", "begin", "script", "insert", "exit", "ready", "failed"},
         version: 1..(Len(Script) + 1), line: Nat, pending: SUBSET Version]

TypeOK ==
    /\ schema \subseteq Object
    /\ versions \subseteq Version
    /\ proc \in [Process -> Proc]
    /\ stops \in 0..MaxStops
    /\ lone \subseteq Process

Init ==
    /\ \E db \in Database : schema = db.schema /\ versions = db.versions
    /\ proc = [p \in Process |-> [pc |-> "off", version |-> 1, line |-> 1, pending |-> {}]]
    /\ stops = 0 /\ lone = {}

Busy(p) == proc[p].pc \in {"begin", "script", "insert", "exit"}

CanWrite(p) == \A q \in Process \ {p} : proc[q].pending = {}

(* A mutant of Start: the version on record is not skipped.                *)
StartAtCurrent(p) ==
    /\ proc[p].pc \in {"off", "failed"}
    /\ \E current \in versions \cup {0} :
          /\ \A v \in versions : v <= current
          /\ proc' = [proc EXCEPT ![p] = [pc |-> "begin", line |-> 1, pending |-> {},
                         version |-> IF current = 0 THEN 1 ELSE current]]
    /\ UNCHANGED <<schema, versions, stops>>

(* The process starts, and reads MAX(version). *)
Start(p) ==
    /\ proc[p].pc \in {"off", "failed"}
    /\ \E current \in versions \cup {0} :
          /\ \A v \in versions : v <= current
          /\ proc' = [proc EXCEPT ![p] =
                [pc |-> IF current + 1 \in Version THEN "begin" ELSE "ready",
                 version |-> current + 1, line |-> 1, pending |-> {}]]
    /\ UNCHANGED <<schema, versions, stops>>

(* A mutant of Begin: the version is recorded before its script is run.    *)
BeginRecorded(p) ==
    /\ proc[p].pc = "begin"
    /\ versions' = versions \cup {proc[p].version}
    /\ proc' = [proc EXCEPT ![p] = [@ EXCEPT !.pc = "script", !.line = 1, !.pending = {}]]
    /\ UNCHANGED <<schema, stops>>

(* executescript commits what is pending. *)
Begin(p) ==
    /\ proc[p].pc = "begin"
    /\ versions' = versions \cup proc[p].pending
    /\ proc' = [proc EXCEPT ![p] = [@ EXCEPT !.pc = "script", !.line = 1, !.pending = {}]]
    /\ UNCHANGED <<schema, stops>>

Ran(p) ==
    proc' = [proc EXCEPT ![p] =
       IF @.line = Len(Script[@.version]) THEN [@ EXCEPT !.pc = "insert"]
                                          ELSE [@ EXCEPT !.line = proc[p].line + 1]]

(* A mutant of Statement: a column that is there means it was all done.    *)
StatementOrSkip(p) ==
    LET v == proc[p].version  new == Script[v][proc[p].line] IN
    /\ proc[p].pc = "script" /\ (new \in schema \/ CanWrite(p))
    /\ IF new \in schema /\ v \notin IfNotExists
       THEN proc' = [proc EXCEPT ![p].pc = "insert"] /\ UNCHANGED schema
       ELSE Ran(p) /\ schema' = schema \cup {new}
    /\ UNCHANGED <<versions, stops>>

(* ALTER TABLE raises on a column that is there, which ends the process.   *)
Statement(p) ==
    LET v == proc[p].version  new == Script[v][proc[p].line] IN
    /\ proc[p].pc = "script" /\ (new \in schema \/ CanWrite(p))
    /\ IF new \in schema /\ v \notin IfNotExists
       THEN proc' = [proc EXCEPT ![p].pc = "failed"] /\ UNCHANGED schema
       ELSE Ran(p) /\ schema' = schema \cup {new}
    /\ UNCHANGED <<versions, stops>>

(* A mutant of Insert: the counter is increased first.                     *)
InsertNext(p) ==
    LET v == proc[p].version IN
    /\ proc[p].pc = "insert" /\ CanWrite(p)
    /\ proc' = [proc EXCEPT ![p] = [@ EXCEPT !.pending = {v + 1} \ versions, !.version = v + 1,
                   !.pc = IF v + 1 \in Version THEN "begin" ELSE "exit"]]
    /\ UNCHANGED <<schema, versions, stops>>

(* The row of another process (IntegrityError) is as good. *)
Insert(p) ==
    LET v == proc[p].version IN
    /\ proc[p].pc = "insert" /\ CanWrite(p)
    /\ proc' = [proc EXCEPT ![p] = [@ EXCEPT !.pending = {v} \ versions, !.version = v + 1,
                   !.pc = IF v + 1 \in Version THEN "begin" ELSE "exit"]]
    /\ UNCHANGED <<schema, versions, stops>>

(* The end of the with block commits. *)
Exit(p) ==
    /\ proc[p].pc = "exit"
    /\ versions' = versions \cup proc[p].pending
    /\ proc' = [proc EXCEPT ![p] = [@ EXCEPT !.pc = "ready", !.pending = {}]]
    /\ UNCHANGED <<schema, stops>>

(* The process is killed; SQLite rolls the open transaction back. *)
Stop(p) ==
    /\ stops < MaxStops /\ stops' = stops + 1
    /\ proc[p].pc # "off"
    /\ proc' = [proc EXCEPT ![p] = [@ EXCEPT !.pc = "off", !.pending = {}]]
    /\ UNCHANGED <<schema, versions>>

Next ==
    \E p \in Process :
       \/ /\ Start(p)
          /\ lone' = IF \E q \in Process : Busy(q) THEN {} ELSE {p}
       \/ /\ Begin(p) \/ Statement(p) \/ Insert(p) \/ Exit(p) \/ Stop(p)
          /\ UNCHANGED lone

Spec == Init /\ [][Next]_vars

-----------------------------------------------------------------------------
(* A version on record was applied in full, with those below it.           *)
VersionsFollowSchema == \A v \in versions : Upto(v) \subseteq schema

(* A process that init_db let pass has all the tables and columns.         *)
ReadySchema == \A p \in Process : proc[p].pc = "ready" => Object \subseteq schema

AtWork(p, v) ==
    \/ v \in proc[p].pending
    \/ /\ proc[p].version = v
       /\ proc[p].pc = "insert" \/ (proc[p].pc = "script" /\ proc[p].line > 1)

(* A migration that cannot be run again was begun, and nobody is to end it.*)
Torn ==
    \E v \in Version \ (versions \cup IfNotExists) :
       Created(v) \cap schema # {} /\ \A p \in Process : ~AtWork(p, v)

(* Whatever starts failed on one another or were stopped before: a start   *)
(* that no other disturbs fails only on a database that a stop, never a    *)
(* race, left torn.                                                        *)
LoneStartSucceeds ==
    \A p \in lone : proc[p].pc = "failed" => stops > 0 /\ Torn

(* init_db is safe to call from several processes at once (its docstring,  *)
(* store.py:122).                                                          *)
StartSucceeds == \A p \in Process : proc[p].pc # "failed"
=============================================================================
