---------------------------- MODULE JossMigrations ----------------------------
(***************************************************************************)
(* `joss migrate` and `joss migrate:fresh` (src/cmd/joss/migrations.go,    *)
(* migrate_fresh.go, src/pkg/core/migration_manager.go, schema.go and      *)
(* schema_sqlite.go).  The up() of a migration is a sequence of calls of   *)
(* Schema and each call a sequence of SQL statements; nothing joins them   *)
(* in a transaction.  A call stops at its first statement that fails and   *)
(* returns false, which up() ignores; then the migration is logged.        *)
(***************************************************************************)
EXTENDS Naturals, Sequences

CONSTANTS Tables,     \* names of tables
          LogName,    \* the migration table, none of them
          NoTable,     \* no such table
          Ups,     \* the migrations, in the order of their file names:
                      \* each a sequence of calls of Schema
          MaxRuns,    \* bound: commands
          MaxFailures \* bound: statements that fail and commands that are killed

VARIABLES schema,     \* the columns and indexes of every table, or NoTable
          logTable,   \* the migration table exists
          logged,     \* what it lists: the migrations that are done
          cmd,        \* the command under way
          allowed,     \* what is left of the bounds
          torn        \* a migration was applied in part (history)

\* Schema is called on tables that have a name, each call executes a statement,
\* and the columns of a table are not NoTable.
ASSUME MigrationsAssumption ==
    /\ LogName \notin Tables
    /\ Len(Ups) \in Nat
    /\ \A m \in 1 .. Len(Ups) :
         /\ Len(Ups[m]) \in Nat
         /\ \A i \in 1 .. Len(Ups[m]) :
              /\ Len(Ups[m][i]) \in Nat \ {0}
              /\ \A j \in 1 .. Len(Ups[m][i]) :
                   LET s == Ups[m][i][j] IN
                   /\ s.k \in {"create", "drop", "add", "remove", "rename"} /\ s.t \in Tables
                   /\ s.k = "create" => s.cols # NoTable
                   /\ s.k = "rename" => s.to \in Tables

migrationVars == <<schema, logTable, logged, cmd, allowed, torn>>

Migrations == 1 .. Len(Ups)
NoTables == [t \in Tables |-> NoTable]
Quiet == [pc |-> "quiet", done |-> {}, m |-> 0, call |-> 0, stmt |-> 0]

MigrationsInit ==
    /\ schema = NoTables /\ logTable = FALSE /\ logged = {}
    /\ cmd = Quiet
    /\ allowed = [runs |-> MaxRuns, failures |-> MaxFailures]
    /\ torn = FALSE

-----------------------------------------------------------------------------
(* What the database does with a statement.                                *)

\* Whether s can be executed on the tables d.
Accepts(d, s) ==
    CASE s.k \in {"create", "drop"} -> TRUE
      [] s.k = "add"    -> d[s.t] # NoTable /\ s.c \notin d[s.t]
      [] s.k = "remove" -> d[s.t] # NoTable /\ s.c \in d[s.t]
      [] s.k = "rename" -> d[s.t] # NoTable /\ d[s.to] = NoTable

\* The tables it leaves.  CREATE TABLE has IF NOT EXISTS and DROP TABLE has IF
\* EXISTS; a column, an index and a foreign key are added alike.
Executed(d, s) ==
    CASE s.k = "create" -> IF d[s.t] = NoTable THEN [d EXCEPT ![s.t] = s.cols] ELSE d
      [] s.k = "drop"   -> [d EXCEPT ![s.t] = NoTable]
      [] s.k = "add"    -> [d EXCEPT ![s.t] = @ \union {s.c}]
      [] s.k = "remove" -> [d EXCEPT ![s.t] = @ \ {s.c}]
      [] s.k = "rename" -> [d EXCEPT ![s.to] = d[s.t], ![s.t] = NoTable]

\* A call when nothing fails: it gives up at the first statement that is not
\* accepted.  At j: what its first j statements leave, and whether it goes on.
Ran(r, s) == IF r.on /\ Accepts(r.db, s) THEN [db |-> Executed(r.db, s), on |-> TRUE]
             ELSE [db |-> r.db, on |-> FALSE]
CallRun(d, call) ==
    LET run[j \in 0 .. Len(call)] ==
          IF j = 0 THEN [db |-> d, on |-> TRUE] ELSE Ran(run[j - 1], call[j])
    IN run

\* A migration when nothing fails, at i: what its first i calls leave.
UpRun(d, m) ==
    LET run[i \in 0 .. Len(Ups[m])] ==
          IF i = 0 THEN d ELSE CallRun(run[i - 1], Ups[m][i])[Len(Ups[m][i])].db
    IN run
Migrated(d, m) == UpRun(d, m)[Len(Ups[m])]

\* What the migrations of a set leave, in the order of their files, at i: those
\* of the first i.
WantedRun(ms) ==
    LET run[i \in 0 .. Len(Ups)] ==
          IF i = 0 THEN NoTables
          ELSE IF i \in ms THEN Migrated(run[i - 1], i) ELSE run[i - 1]
    IN run
Wanted(ms) == WantedRun(ms)[Len(Ups)]

\* A migration can be begun again from any point when each call is a create or
\* a drop and nothing else follows in it.
Repeatable(m) == \A i \in 1 .. Len(Ups[m]) : Len(Ups[m][i]) = 1 /\ Ups[m][i][1].k \in {"create", "drop"}

-----------------------------------------------------------------------------
Failure == /\ allowed.failures > 0
           /\ allowed' = [allowed EXCEPT !.failures = @ - 1]

\* The command ends in the middle of the migration m.
Tears(m) == torn' = (torn \/ (m # 0 /\ ~Repeatable(m)))

\* runMigrations, runMigrateFresh: a command begins.
Command(fresh) ==
    /\ cmd.pc = "quiet" /\ allowed.runs > 0
    /\ allowed' = [allowed EXCEPT !.runs = @ - 1]
    /\ cmd' = [Quiet EXCEPT !.pc = IF fresh THEN "list" ELSE "ensure"]
    /\ UNCHANGED <<schema, logTable, logged, torn>>

\* The process is killed.  Between migrations nothing is lost, but a fresh that
\* has erased something leaves a log and tables that do not belong together.
KilledCommand ==
    /\ cmd.pc # "quiet" /\ Failure
    /\ cmd' = Quiet
    /\ CASE cmd.pc = "erase" -> torn' = TRUE
         [] cmd.pc = "log" \/ (cmd.pc = "up" /\ <<cmd.call, cmd.stmt>> # <<1, 1>>) -> Tears(cmd.m)
         [] OTHER -> UNCHANGED torn
    /\ UNCHANGED <<schema, logTable, logged>>

\* DropAllTables: the tables are listed; when that fails nothing is dropped.
ListTables ==
    /\ cmd.pc = "list"
    /\ \/ /\ cmd' = [cmd EXCEPT !.pc = "erase",
                     !.done = {t \in Tables : schema[t] # NoTable} \union (IF logTable THEN {LogName} ELSE {})]
          /\ UNCHANGED allowed
       \/ Failure /\ cmd' = [cmd EXCEPT !.pc = "ensure"]
    /\ UNCHANGED <<schema, logTable, logged, torn>>

\* Each is dropped; one that cannot be is left where it is.
EraseTable(t) ==
    /\ cmd.pc = "erase" /\ t \in cmd.done
    /\ cmd' = [cmd EXCEPT !.done = @ \ {t}]
    /\ \/ /\ t = LogName /\ logTable' = FALSE /\ logged' = {}
          /\ UNCHANGED <<schema, allowed>>
       \/ /\ t # LogName /\ schema' = [schema EXCEPT ![t] = NoTable]
          /\ UNCHANGED <<logTable, logged, allowed>>
       \/ Failure /\ UNCHANGED <<schema, logTable, logged>>
    /\ UNCHANGED torn

Erased ==
    /\ cmd.pc = "erase" /\ cmd.done = {}
    /\ cmd' = [cmd EXCEPT !.pc = "ensure"]
    /\ torn' = (schema # NoTables \/ logged # {})
    /\ UNCHANGED <<schema, logTable, logged, allowed>>

\* EnsureMigrationTable: CREATE TABLE IF NOT EXISTS, or the command ends.
EnsureMigrationTable ==
    /\ cmd.pc = "ensure"
    /\ \/ logTable' = TRUE /\ cmd' = [cmd EXCEPT !.pc = "read"] /\ UNCHANGED allowed
       \/ Failure /\ cmd' = Quiet /\ UNCHANGED logTable
    /\ UNCHANGED <<schema, logged, torn>>

\* GetExecutedMigrations: read once.  A query that fails reads as no migration,
\* and the command applies all of them again.
GetExecutedMigrations ==
    /\ cmd.pc = "read"
    /\ \/ cmd' = [cmd EXCEPT !.pc = "pick", !.done = logged] /\ UNCHANGED <<allowed, torn>>
       \/ Failure /\ cmd' = [cmd EXCEPT !.pc = "pick", !.done = {}] /\ torn' = (torn \/ logged # {})
    /\ UNCHANGED <<schema, logTable, logged>>

\* MUTANT: a migration is logged before its up() is called.
PickLogged ==
    LET next == {m \in Migrations : m \notin cmd.done /\ m > cmd.m} IN
    /\ cmd.pc = "pick"
    /\ \/ \E m \in next : /\ \A n \in next : m <= n
                           /\ cmd' = [cmd EXCEPT !.pc = "up", !.call = 1, !.stmt = 1, !.m = m]
                           /\ logged' = logged \union {m}
       \/ next = {} /\ cmd' = Quiet /\ UNCHANGED logged
    /\ UNCHANGED <<schema, logTable, allowed, torn>>

\* performMigrations: the next file that is not in the map, read and parsed.
Pick ==
    LET next  == {m \in Migrations : m \notin cmd.done /\ m > cmd.m}
        first == CHOOSE m \in next : \A n \in next : m <= n
    IN
    /\ cmd.pc = "pick"
    /\ \/ /\ next # {}
          /\ cmd' = [cmd EXCEPT !.pc = IF Len(Ups[first]) = 0 THEN "log" ELSE "up",
                                !.call = 1, !.stmt = 1, !.m = first]
          /\ UNCHANGED allowed
       \/ next # {} /\ Failure /\ cmd' = Quiet
       \/ next = {} /\ cmd' = Quiet /\ UNCHANGED allowed
    /\ UNCHANGED <<schema, logTable, logged, torn>>

\* Where up() goes on after a statement, or after a call that gave up.
After(c, ok) ==
    LET calls == Ups[c.m]
        more  == ok /\ c.stmt < Len(calls[c.call])
    IN IF more THEN [c EXCEPT !.stmt = @ + 1]
       ELSE IF c.call < Len(calls) THEN [c EXCEPT !.call = @ + 1, !.stmt = 1]
       ELSE [c EXCEPT !.pc = "log"]

\* executeSchemaMethod: the next statement.  One that fails ends its call.
SchemaStatement ==
    LET s == Ups[cmd.m][cmd.call][cmd.stmt] IN
    /\ cmd.pc = "up"
    /\ \/ /\ Accepts(schema, s)
          /\ schema' = Executed(schema, s)
          /\ cmd' = After(cmd, TRUE)
          /\ UNCHANGED <<allowed, torn>>
       \/ /\ ~Accepts(schema, s)
          /\ cmd' = After(cmd, FALSE)
          /\ UNCHANGED <<schema, allowed, torn>>
       \/ /\ Failure
          /\ cmd' = After(cmd, FALSE)
          /\ torn' = TRUE
          /\ UNCHANGED schema
    /\ UNCHANGED <<logTable, logged>>

\* LogMigration: the row of a migration, or the command ends.
LogMigration ==
    /\ cmd.pc = "log"
    /\ \/ /\ logged' = logged \union {cmd.m}
          /\ cmd' = [cmd EXCEPT !.pc = "pick"]
          /\ UNCHANGED <<allowed, torn>>
       \/ /\ Failure /\ cmd' = Quiet
          /\ Tears(cmd.m)
          /\ UNCHANGED logged
    /\ UNCHANGED <<schema, logTable>>

-----------------------------------------------------------------------------
MigrationSteps ==
    \/ ListTables \/ (\E t \in cmd.done : EraseTable(t)) \/ Erased
    \/ EnsureMigrationTable \/ GetExecutedMigrations \/ Pick \/ SchemaStatement \/ LogMigration

MigrationsNext == MigrationSteps \/ KilledCommand \/ \E fresh \in BOOLEAN : Command(fresh)
MigrationsSpec == MigrationsInit /\ [][MigrationsNext]_migrationVars

\* Between two commands the tables are what the migrations of the log make, in
\* the order of their files, or the next migration makes the same of them:
\* through crashes, failures and runs of the command again, unless a migration
\* that cannot be begun again was left half-way, a statement failed or the log
\* could not be read (performMigrations, Schema).
SchemaIsWanted ==
    ~torn /\ cmd.pc \in {"quiet", "pick"} =>
        \/ schema = Wanted(logged)
        \* one that can be begun again may have been begun and not logged
        \/ \E m \in Migrations \ logged :
              Repeatable(m) /\ Migrated(schema, m) = Migrated(Wanted(logged), m)
=============================================================================
