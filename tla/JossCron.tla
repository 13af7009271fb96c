------------------------------ MODULE JossCron ------------------------------
(* The cron scheduler of pkg/core (cron.go, cron_manager.go): tasks that a   *)
(* program registers with Cron::schedule, the one ticker of each process,    *)
(* the table that the processes share as a lock, the in-memory fallback when *)
(* the database does not answer, and processes that die and start again.     *)
EXTENDS Integers, Sequences, FiniteSets

CONSTANTS
    Procs,    \* server processes that share one database
    Names,    \* names of tasks
    Exprs,    \* schedules: sequences of fields, see MatchCron
    Times,    \* the minutes <<minute, hour, day, month, weekday>> a tick may see
    MaxRuns,  \* bound: runs of one task that one process has at a time
    None      \* no schedule, no row

\* A row of the cron table.
Row == [schedule : Exprs, running : BOOLEAN]

ASSUME CronAssumption ==
    /\ None \notin Exprs \cup Row
    /\ MaxRuns \in Nat \ {0}
    /\ Times # {}

VARIABLES
    up,       \* process -> whether it is alive
    tasks,    \* process -> scheduledTasks with scheduledSchedules: name -> schedule
    db,       \* process -> whether the runtime of its ticker has a handle (r.DB)
    wasReset, \* process -> whether cronDBResetOnce has run
    tick,     \* process -> the TickCron in progress: [pc, now, rows]
    memory,   \* process -> names that inMemoryRunning holds as true
    rows,     \* the cron table: name -> [schedule, running], or None
    body,     \* store, process, name -> goroutines inside executeBlock
    ending,   \* process, name -> goroutines about to write their outcome
    faults,   \* history: a statement of the database has failed
    together  \* history: two processes have been alive at once

volatile == <<tasks, db, wasReset, tick, memory>>
runs == <<body, ending>>
history == <<faults, together>>
vars == <<up, volatile, rows, runs, history>>

Stores == {"database", "memory"}
Idle == [pc |-> "idle", now |-> None, rows |-> [n \in {} |-> None]]
NoTasks == [n \in Names |-> None]
NoRuns == [n \in Names |-> 0]
Free(p, n) == body["database"][p][n] + ending[p][n] < MaxRuns /\ body["memory"][p][n] < MaxRuns
Goto(p, pc) == tick' = [tick EXCEPT ![p].pc = pc]

-----------------------------------------------------------------------------
(* Schedules.  A field is [kind |-> "any"], [kind |-> "step", n |-> _],      *)
(* [kind |-> "list", of |-> _] or [kind |-> "number", n |-> _]; a range      *)
(* "1-5" is read as the number before the dash.                              *)

matchCronField(field, val) ==
    \/ field.kind = "any"
    \/ field.kind = "step" /\ field.n > 0 /\ val % field.n = 0
    \/ field.kind = "list" /\ val \in field.of
    \/ field.kind \in {"number", "range"} /\ val = field.n

\* Friendly names and anything else that is not five fields.
Any == [kind |-> "any"]
At(k) == [kind |-> "number", n |-> k]
Expand(expr) ==
    CASE expr = <<"hourly">> -> <<At(0), Any, Any, Any, Any>>
      [] expr = <<"daily">> -> <<At(0), At(0), Any, Any, Any>>
      [] expr = <<"weekly">> -> <<At(0), At(0), Any, Any, At(0)>>
      [] expr = <<"monthly">> -> <<At(0), At(0), At(1), Any, Any>>
      [] OTHER -> expr

MatchCron(expr, t) ==
    LET parts == Expand(expr)
    IN Len(parts) = 5 /\ \A i \in 1..5 : matchCronField(parts[i], t[i])

-----------------------------------------------------------------------------
Init ==
    /\ up = [p \in Procs |-> FALSE]
    /\ tasks = [p \in Procs |-> NoTasks]
    /\ db = [p \in Procs |-> FALSE]
    /\ wasReset = [p \in Procs |-> FALSE]
    /\ tick = [p \in Procs |-> Idle]
    /\ memory = [p \in Procs |-> {}]
    /\ rows = [n \in Names |-> None]
    /\ body = [s \in Stores |-> [p \in Procs |-> NoRuns]]
    /\ ending = [p \in Procs |-> NoRuns]
    /\ faults = FALSE
    /\ together = FALSE

Start(p) ==
    /\ ~up[p]
    /\ up' = [up EXCEPT ![p] = TRUE]
    /\ together' = (together \/ \E q \in Procs : up[q])
    /\ UNCHANGED <<volatile, rows, runs, faults>>

\* A process dies: its maps, its ticker and its goroutines are gone, the rows
\* it had marked stay marked.
Crash(p) ==
    /\ up[p]
    /\ up' = [up EXCEPT ![p] = FALSE]
    /\ tasks' = [tasks EXCEPT ![p] = NoTasks]
    /\ db' = [db EXCEPT ![p] = FALSE]
    /\ wasReset' = [wasReset EXCEPT ![p] = FALSE]
    /\ tick' = [tick EXCEPT ![p] = Idle]
    /\ memory' = [memory EXCEPT ![p] = {}]
    /\ body' = [s \in Stores |-> [body[s] EXCEPT ![p] = NoRuns]]
    /\ ending' = [ending EXCEPT ![p] = NoRuns]
    /\ UNCHANGED <<rows, history>>

-----------------------------------------------------------------------------
(* Cron::schedule, executed by a unit of the program or by a request.        *)

\* The look-up and the INSERT or UPDATE that follows are one step: of two
\* processes that both miss the row, the unique name lets one insert.
Registered(n, e) ==
    [rows EXCEPT ![n] = IF @ = None THEN [schedule |-> e, running |-> FALSE]
                        ELSE [@ EXCEPT !.schedule = e]]

Schedule(p, n, e) ==
    /\ up[p]
    /\ tasks[p][n] # e
    /\ tasks' = [tasks EXCEPT ![p][n] = e]
    /\ \/ rows' = Registered(n, e) /\ UNCHANGED faults
       \/ ~faults /\ faults' = TRUE /\ UNCHANGED rows
    /\ UNCHANGED <<up, db, wasReset, tick, memory, runs, together>>

-----------------------------------------------------------------------------
(* TickCron.                                                                 *)

\* cronTickerStarted: the first registration starts the ticker.  Its channel
\* holds one tick, so after a slow one two ticks may fall in one minute and a
\* minute may see none: now is any minute.
\* r.GetDB() opens the database unless it is open already.
TickBegin(p) ==
    /\ up[p] /\ tasks[p] # NoTasks /\ tick[p].pc = "idle"
    /\ \E now \in Times :
        \/ /\ db' = [db EXCEPT ![p] = TRUE]
           /\ \E pc \in {"reset", "query"} :
                 /\ wasReset[p] <=> pc = "query"
                 /\ tick' = [tick EXCEPT ![p] = [pc |-> pc, now |-> now, rows |-> Idle.rows]]
           /\ UNCHANGED faults
        \/ /\ ~db[p] /\ ~faults
           /\ faults' = TRUE
           /\ tick' = [tick EXCEPT ![p] = [pc |-> "memory", now |-> now, rows |-> tasks[p]]]
           /\ UNCHANGED db
    /\ UNCHANGED <<up, tasks, wasReset, memory, rows, runs, together>>

\* cronDBResetOnce: the flags that a dead process left.  The Once is spent even
\* when the statement fails.
Released(r) == [r EXCEPT !.running = FALSE]
TickReset(p) ==
    /\ tick[p].pc = "reset"
    /\ wasReset' = [wasReset EXCEPT ![p] = TRUE]
    /\ Goto(p, "query")
    /\ \/ /\ rows' = [n \in Names |-> IF rows[n] = None THEN None ELSE Released(rows[n])]
          /\ UNCHANGED faults
       \/ ~faults /\ faults' = TRUE /\ UNCHANGED rows
    /\ UNCHANGED <<up, tasks, db, memory, runs, together>>

\* Registered tasks without a row get one; a row that exists keeps its schedule.
Synced(p) ==
    [n \in Names |-> IF rows[n] = None /\ tasks[p][n] # None
                     THEN [schedule |-> tasks[p][n], running |-> FALSE]
                     ELSE rows[n]]

\* The missing rows and SELECT name, schedule, is_running; when the query fails
\* the tick goes on in memory.  Inserting does not depend on what other
\* processes do, so the two are one step.
TickQuery(p) ==
    /\ tick[p].pc = "query"
    /\ rows' = Synced(p)
    /\ \/ /\ tick' = [tick EXCEPT ![p] = [pc |-> "rows", now |-> @.now, rows |-> rows']]
          /\ UNCHANGED faults
       \/ /\ ~faults /\ faults' = TRUE
          /\ tick' = [tick EXCEPT ![p] = [pc |-> "memory", now |-> @.now, rows |-> tasks[p]]]
    /\ UNCHANGED <<up, tasks, db, wasReset, memory, runs, together>>

\* The row or the task n is done with.
Visited(p, n) ==
    LET others == [tick[p].rows EXCEPT ![n] = None]
    IN tick' = [tick EXCEPT ![p] = [@ EXCEPT !.rows = others]]

\* A row read as running, not due, or of a task this process does not know.
Due(p, n) ==
    LET row == tick[p].rows[n]
    IN ~row.running /\ MatchCron(row.schedule, tick[p].now) /\ tasks[p][n] # None

TickSkip(p, n) ==
    /\ tick[p].pc = "rows" /\ tick[p].rows[n] # None
    /\ ~Due(p, n)
    /\ Visited(p, n)
    /\ UNCHANGED <<up, tasks, db, wasReset, memory, rows, runs, history>>

\* MUTANT: the task is started without marking its row.
RunUnmarked(p, n) ==
    /\ tick[p].pc = "rows" /\ tick[p].rows[n] # None
    /\ Due(p, n) /\ Free(p, n)
    /\ Visited(p, n)
    /\ body' = [body EXCEPT !["database"][p][n] = @ + 1]
    /\ UNCHANGED <<up, tasks, db, wasReset, memory, rows, ending, history>>

\* RunCronTask: the row is marked without looking at it again, then the
\* goroutine starts; when the statement fails the task is not run.
RunCronTask(p, n) ==
    /\ tick[p].pc = "rows" /\ tick[p].rows[n] # None
    /\ Due(p, n) /\ Free(p, n)
    /\ Visited(p, n)
    /\ \/ /\ rows' = [rows EXCEPT ![n] = [@ EXCEPT !.running = TRUE]]
          /\ body' = [body EXCEPT !["database"][p][n] = @ + 1]
          /\ UNCHANGED faults
       \/ /\ ~faults /\ faults' = TRUE
          /\ UNCHANGED <<rows, body>>
    /\ UNCHANGED <<up, tasks, db, wasReset, memory, ending, together>>

\* The in-memory fallback.
TickMemorySkip(p, n) ==
    /\ tick[p].pc = "memory" /\ tick[p].rows[n] # None
    /\ n \in memory[p] \/ ~MatchCron(tick[p].rows[n], tick[p].now)
    /\ Visited(p, n)
    /\ UNCHANGED <<up, tasks, db, wasReset, memory, rows, runs, history>>

TickMemoryRun(p, n) ==
    /\ tick[p].pc = "memory" /\ tick[p].rows[n] # None
    /\ n \notin memory[p] /\ MatchCron(tick[p].rows[n], tick[p].now)
    /\ Free(p, n)
    /\ Visited(p, n)
    /\ memory' = [memory EXCEPT ![p] = @ \cup {n}]
    /\ body' = [body EXCEPT !["memory"][p][n] = @ + 1]
    /\ UNCHANGED <<up, tasks, db, wasReset, rows, ending, history>>

TickEnd(p) ==
    /\ tick[p].pc \in {"rows", "memory"}
    /\ \A n \in DOMAIN tick[p].rows : tick[p].rows[n] = None
    /\ tick' = [tick EXCEPT ![p] = Idle]
    /\ UNCHANGED <<up, tasks, db, wasReset, memory, rows, runs, history>>

-----------------------------------------------------------------------------
(* The goroutine of a task.                                                  *)

\* executeBlock returns or panics.
BodyEnds(p, n) ==
    /\ body["database"][p][n] > 0
    /\ body' = [body EXCEPT !["database"][p][n] = @ - 1]
    /\ ending' = [ending EXCEPT ![p][n] = @ + 1]
    /\ UNCHANGED <<up, volatile, rows, history>>

\* MUTANT: the deferred function writes its outcome only after a normal end.
OutcomeUnlessPanic(p, n, panicked) ==
    /\ ending[p][n] > 0
    /\ ending' = [ending EXCEPT ![p][n] = @ - 1]
    /\ \/ /\ rows' = IF panicked THEN rows
                     ELSE [rows EXCEPT ![n] = [@ EXCEPT !.running = FALSE]]
          /\ UNCHANGED faults
       \/ ~faults /\ faults' = TRUE /\ UNCHANGED rows
    /\ UNCHANGED <<up, volatile, body, together>>

\* The deferred function writes the outcome, 'error' after a panic and otherwise
\* 'completed'; the result of the statement is ignored.
Outcome(p, n, panicked) ==
    /\ ending[p][n] > 0
    /\ ending' = [ending EXCEPT ![p][n] = @ - 1]
    /\ \/ /\ rows' = [rows EXCEPT ![n] = [@ EXCEPT !.running = FALSE]]
          /\ UNCHANGED faults
       \/ ~faults /\ faults' = TRUE /\ UNCHANGED rows
    /\ UNCHANGED <<up, volatile, body, together>>

MemoryEnds(p, n) ==
    /\ body["memory"][p][n] > 0
    /\ body' = [body EXCEPT !["memory"][p][n] = @ - 1]
    /\ memory' = [memory EXCEPT ![p] = @ \ {n}]
    /\ UNCHANGED <<up, tasks, db, wasReset, tick, rows, ending, history>>

-----------------------------------------------------------------------------
TickStep(p) ==
    \/ TickBegin(p) \/ TickReset(p) \/ TickQuery(p) \/ TickEnd(p)
    \/ \E n \in Names :
          TickSkip(p, n) \/ RunCronTask(p, n) \/ TickMemorySkip(p, n) \/ TickMemoryRun(p, n)

TaskStep(p, n) ==
    \/ BodyEnds(p, n) \/ MemoryEnds(p, n)
    \/ \E panicked \in BOOLEAN : Outcome(p, n, panicked)

Next ==
    \E p \in Procs :
        \/ Start(p) \/ Crash(p) \/ TickStep(p)
        \/ \E n \in Names : TaskStep(p, n) \/ \E e \in Exprs : Schedule(p, n, e)

\* The ticker goes on firing, its goroutine is scheduled and blocks end.  Nothing makes a process start or a program schedule.
Spec == Init /\ [][Next]_vars
LiveSpec ==
    /\ Spec
    /\ \A p \in Procs :
        /\ WF_vars(TickStep(p))
        /\ \A n \in Names : WF_vars(TaskStep(p, n))

-----------------------------------------------------------------------------
(* Properties.                                                               *)

\* Every variable has its type.
TypeOK ==
    /\ up \in [Procs -> BOOLEAN] /\ db \in [Procs -> BOOLEAN] /\ wasReset \in [Procs -> BOOLEAN]
    /\ tasks \in [Procs -> [Names -> Exprs \cup {None}]]
    /\ rows \in [Names -> Row \cup {None}]
    /\ \A p \in Procs : /\ tick[p].pc \in {"idle", "reset", "query", "rows", "memory"}
                        /\ memory[p] \subseteq Names
    /\ body \in [Stores -> [Procs -> [Names -> 0..MaxRuns]]]
    /\ ending \in [Procs -> [Names -> 0..MaxRuns]]
    /\ faults \in BOOLEAN /\ together \in BOOLEAN

RunsOf(n) == {x \in Stores \X Procs : body[x[1]][x[2]][n] > 0}

\* A task never overlaps itself and its row tells the truth: as long as every
\* statement has succeeded and only one process has been alive at a time
\* (however often it died and came back), a task has at most one run, and once
\* the process has made its first reset a marked row is the row of a run in
\* progress.  TickCron calls this "DB locking".
TheLockIsTheRun ==
    ~faults /\ ~together =>
        \A n \in Names :
            /\ Cardinality(RunsOf(n)) <= 1
            /\ \A x \in RunsOf(n) : body[x[1]][x[2]][n] = 1 /\ rows[n].running
            /\ \A p \in Procs :
                 wasReset[p] /\ rows[n] # None /\ rows[n].running =>
                     body["database"][p][n] + ending[p][n] = 1

\* Within a process, and whatever fails, a task started from memory is not
\* started from memory again before it has ended, and its mark goes with it.
MemoryRunsAreExclusive ==
    \A p \in Procs, n \in Names : body["memory"][p][n] = IF n \in memory[p] THEN 1 ELSE 0

\* Both: a run excludes another one of its task in the store it was started from.
RunsAreExclusive == TheLockIsTheRun /\ MemoryRunsAreExclusive

\* A task that is due at every minute keeps being run: from any state in which a
\* process knows it, a run of it is seen again, unless a statement of the
\* database fails, the process dies, the schedule changes or another process
\* has ever been alive.
DueTasksKeepRunning ==
    \A p \in Procs, n \in Names :
        tasks[p][n] # None ~>
            \/ RunsOf(n) # {}
            \/ ~up[p] \/ faults \/ together
            \/ rows[n] # None /\ \E t \in Times : ~MatchCron(rows[n].schedule, t)
=============================================================================
