---------------------------- MODULE JossCronProofs ----------------------------
(***************************************************************************)
(* For any number of processes, tasks and schedules: JossCron is type      *)
(* correct, and a run of a task excludes another one.  The invariant       *)
(* relates the rows that a tick has read to the rows as they are: no row   *)
(* that was read as free is marked before the tick reaches it.             *)
(***************************************************************************)
EXTENDS JossCron, FiniteSetTheorems, TLAPS

--------------------------------------------------------------------------------
(* The inductive invariant.                                                *)

\* A tick: none, before its query, over the rows it read, or over its tasks.
Ticks ==
    [pc : {"idle"}, now : {None}, rows : {Idle.rows}]
    \cup [pc : {"reset", "query"}, now : Times, rows : {Idle.rows}]
    \cup [pc : {"rows"}, now : Times, rows : [Names -> Row \cup {None}]]
    \cup [pc : {"memory"}, now : Times, rows : [Names -> Exprs \cup {None}]]

\* The runs that came from the table and have not written their outcome.
Load(p, n) == body["database"][p][n] + ending[p][n]

Types ==
    /\ up \in [Procs -> BOOLEAN] /\ db \in [Procs -> BOOLEAN] /\ wasReset \in [Procs -> BOOLEAN]
    /\ tasks \in [Procs -> [Names -> Exprs \cup {None}]]
    /\ tick \in [Procs -> Ticks]
    /\ memory \in [Procs -> SUBSET Names]
    /\ rows \in [Names -> Row \cup {None}]
    /\ body \in [Stores -> [Procs -> [Names -> Nat]]]
    /\ ending \in [Procs -> [Names -> Nat]]
    /\ faults \in BOOLEAN /\ together \in BOOLEAN

\* A process has at most MaxRuns runs of a task.
Bounded == \A p \in Procs, n \in Names : Load(p, n) <= MaxRuns

\* Nothing of a dead process is left, and without faults nobody runs from memory.
DeadOrAlone ==
    /\ \A p \in Procs : ~up[p] =>
          /\ tick[p] = Idle /\ ~wasReset[p] /\ memory[p] = {} /\ tasks[p] = NoTasks
          /\ \A n \in Names : Load(p, n) = 0
    /\ ~together => \A p, q \in Procs : up[p] /\ up[q] => p = q
    /\ ~faults => \A p \in Procs : tick[p].pc # "memory" /\ memory[p] = {}

\* The table is reset before it is read, and rows are never removed.
RowsStay ==
    \A p \in Procs :
        /\ tick[p].pc \in {"query", "rows"} => wasReset[p]
        /\ tick[p].pc = "reset" => ~wasReset[p]
        /\ \A n \in Names :
              /\ tick[p].pc = "rows" /\ tick[p].rows[n] # None => rows[n] # None
              /\ Load(p, n) > 0 => rows[n] # None

\* One process and no faults: the mark of a row is the run, and what a tick read
\* as free is still free when it gets there.
Locked(p, n) ==
    /\ Load(p, n) <= 1
    /\ Load(p, n) = 1 => rows[n].running /\ wasReset[p]
    /\ wasReset[p] /\ rows[n] # None /\ rows[n].running => Load(p, n) = 1
    /\ tick[p].pc = "rows" /\ tick[p].rows[n] # None /\ ~tick[p].rows[n].running
          => ~rows[n].running
Locks == ~faults /\ ~together => \A p \in Procs, n \in Names : Locked(p, n)

CronInv == Types /\ Bounded /\ MemoryRunsAreExclusive /\ DeadOrAlone /\ RowsStay /\ Locks

--------------------------------------------------------------------------------
(* Lemmas on the operators of the model.                                   *)

\* What a tick holds at each of its steps.
LEMMA TickForms ==
    ASSUME NEW t \in Ticks
    PROVE  /\ t.pc \in {"idle", "reset", "query", "rows", "memory"}
           /\ t.pc = "idle" => t = Idle
           /\ t.pc = "rows" => t.rows \in [Names -> Row \cup {None}]
           /\ t.pc = "memory" => t.rows \in [Names -> Exprs \cup {None}]
           /\ t.pc # "idle" => t.now \in Times
BY DEF Ticks, Idle

\* A row stays a row when it is marked or unmarked.
LEMMA Marking ==
    ASSUME NEW r \in Row, NEW b \in BOOLEAN
    PROVE  [r EXCEPT !.running = b] \in Row /\ [r EXCEPT !.running = b].running = b
BY DEF Row

\* A row stays a row, and keeps its mark, when it is given another schedule.
LEMMA Rescheduling ==
    ASSUME NEW r \in Row, NEW e \in Exprs
    PROVE  [r EXCEPT !.schedule = e] \in Row /\ [r EXCEPT !.schedule = e].running = r.running
BY DEF Row

\* A statement that fails is remembered.
LEMMA FaultsStay ==
    ASSUME faults \in BOOLEAN, UNCHANGED faults \/ faults' = TRUE
    PROVE  faults' \in BOOLEAN /\ (faults => faults')
OBVIOUS

\* A visited row or task is the only change of a tick.
LEMMA VisitedChanges ==
    ASSUME tick \in [Procs -> Ticks], NEW p \in Procs, NEW n \in Names,
           tick[p].pc \in {"rows", "memory"}, Visited(p, n)
    PROVE  /\ tick' \in [Procs -> Ticks]
           /\ \A q \in Procs : q # p => tick'[q] = tick[q]
           /\ tick'[p].pc = tick[p].pc
           /\ \A m \in Names : tick'[p].rows[m] = IF m = n THEN None ELSE tick[p].rows[m]
<1> DEFINE visited == [tick[p].rows EXCEPT ![n] = None]
<1>1. tick'[p] = [tick[p] EXCEPT !.rows = visited] /\ tick[p] \in Ticks
  BY DEF Visited
<1>2. \A q \in Procs : q # p => tick'[q] = tick[q]
  BY DEF Visited
<1>3. CASE tick[p].pc = "rows"
  <2>1. tick[p].rows \in [Names -> Row \cup {None}]
    BY <1>1, <1>3, TickForms
  <2>2. visited \in [Names -> Row \cup {None}]
    BY <2>1
  <2>3. \A m \in Names : visited[m] = IF m = n THEN None ELSE tick[p].rows[m]
    BY <2>1
  <2>4. tick'[p] \in Ticks /\ tick'[p].pc = tick[p].pc /\ tick'[p].rows = visited
    <3> HIDE DEF visited
    <3> QED BY <1>1, <1>3, <2>2 DEF Ticks
  <2>5. tick' \in [Procs -> Ticks]
    BY <1>2, <2>4 DEF Visited
  <2> QED BY <1>2, <2>3, <2>4, <2>5
<1>4. CASE tick[p].pc = "memory"
  <2>1. tick[p].rows \in [Names -> Exprs \cup {None}]
    BY <1>1, <1>4, TickForms
  <2>2. visited \in [Names -> Exprs \cup {None}]
    BY <2>1
  <2>3. \A m \in Names : visited[m] = IF m = n THEN None ELSE tick[p].rows[m]
    BY <2>1
  <2>4. tick'[p] \in Ticks /\ tick'[p].pc = tick[p].pc /\ tick'[p].rows = visited
    <3> HIDE DEF visited
    <3> QED BY <1>1, <1>4, <2>2 DEF Ticks
  <2>5. tick' \in [Procs -> Ticks]
    BY <1>2, <2>4 DEF Visited
  <2> QED BY <1>2, <2>3, <2>4, <2>5
<1> QED BY <1>3, <1>4

\* One more or one less run of a task, in one store.
LEMMA BodyChanges ==
    ASSUME NEW p \in Procs, NEW n \in Names, NEW s \in Stores, NEW k \in Nat,
           body \in [Stores -> [Procs -> [Names -> Nat]]], body' = [body EXCEPT ![s][p][n] = k]
    PROVE  /\ body' \in [Stores -> [Procs -> [Names -> Nat]]]
           /\ \A t \in Stores, q \in Procs, m \in Names :
                 body'[t][q][m] = IF t = s /\ q = p /\ m = n THEN k ELSE body[t][q][m]
OBVIOUS

\* One more or one less outcome to write.
LEMMA EndingChanges ==
    ASSUME NEW p \in Procs, NEW n \in Names, NEW k \in Nat,
           ending \in [Procs -> [Names -> Nat]], ending' = [ending EXCEPT ![p][n] = k]
    PROVE  /\ ending' \in [Procs -> [Names -> Nat]]
           /\ \A q \in Procs, m \in Names :
                 ending'[q][m] = IF q = p /\ m = n THEN k ELSE ending[q][m]
OBVIOUS

\* The counts are numbers.
LEMMA LoadIsANumber ==
    ASSUME Types, NEW p \in Procs, NEW n \in Names
    PROVE  /\ body["database"][p][n] \in Nat /\ body["memory"][p][n] \in Nat
           /\ ending[p][n] \in Nat /\ Load(p, n) \in Nat
           /\ Load(p, n) = body["database"][p][n] + ending[p][n]
BY DEF Types, Load, Stores

\* Who ticks or runs is alive.
LEMMA BusyAreAlive ==
    ASSUME CronInv, NEW p \in Procs,
           \/ tick[p].pc # "idle"
           \/ \E n \in Names : Load(p, n) > 0 \/ body["memory"][p][n] > 0
    PROVE  up[p]
<1> SUFFICES ASSUME ~up[p] PROVE FALSE
  OBVIOUS
<1>1. tick[p] = Idle /\ memory[p] = {} /\ \A n \in Names : Load(p, n) = 0
  BY DEF CronInv, DeadOrAlone
<1>2. tick[p].pc = "idle"
  BY <1>1 DEF Idle
<1>3. \A n \in Names : body["memory"][p][n] = 0
  BY <1>1 DEF CronInv, MemoryRunsAreExclusive
<1> QED BY <1>1, <1>2, <1>3

\* As long as processes have not met, the others hold nothing.
LEMMA OthersAreDead ==
    ASSUME CronInv, NEW p \in Procs, up[p], ~together, NEW q \in Procs, q # p
    PROVE  tick[q].pc = "idle" /\ ~wasReset[q] /\ \A n \in Names : Load(q, n) = 0
BY DEF CronInv, DeadOrAlone, Idle

--------------------------------------------------------------------------------
(* The steps.                                                              *)

\* A process starts.
LEMMA StartKeeps ==
    ASSUME CronInv, NEW p \in Procs, Start(p)
    PROVE  CronInv'
<1> USE DEF CronInv, Start, volatile, runs
<1>1. Types'
  BY DEF Types
<1>2. Bounded' /\ MemoryRunsAreExclusive' /\ RowsStay'
  BY DEF Bounded, MemoryRunsAreExclusive, RowsStay, Load
<1>3. DeadOrAlone'
  BY DEF DeadOrAlone, Types, Load
<1>4. Locks'
  BY DEF Locks, Locked, Load, Types
<1> QED BY <1>1, <1>2, <1>3, <1>4

\* A process dies.
LEMMA CrashKeeps ==
    ASSUME CronInv, NEW p \in Procs, Crash(p)
    PROVE  CronInv'
<1> USE DEF CronInv, Crash, history
<1>0. /\ Idle \in Ticks /\ Idle.pc = "idle" /\ NoTasks \in [Names -> Exprs \cup {None}]
      /\ NoRuns \in [Names -> Nat] /\ \A n \in Names : NoRuns[n] = 0
  BY DEF Idle, Ticks, NoTasks, NoRuns
<1>1. Types'
  BY <1>0 DEF Types
<1>2. /\ tick'[p] = Idle /\ memory'[p] = {} /\ tasks'[p] = NoTasks /\ ~wasReset'[p] /\ ~up'[p]
      /\ \A n \in Names : /\ body'["database"][p][n] = 0 /\ body'["memory"][p][n] = 0
                          /\ ending'[p][n] = 0
  BY <1>0 DEF Types, Stores
<1>3. \A q \in Procs : q # p =>
         /\ tick'[q] = tick[q] /\ memory'[q] = memory[q] /\ tasks'[q] = tasks[q]
         /\ wasReset'[q] = wasReset[q] /\ up'[q] = up[q]
         /\ \A n \in Names : /\ body'["database"][q][n] = body["database"][q][n]
                             /\ body'["memory"][q][n] = body["memory"][q][n]
                             /\ ending'[q][n] = ending[q][n]
  BY DEF Types, Stores
<1>4. rows' = rows /\ faults' = faults /\ together' = together
  OBVIOUS
<1> HIDE DEF Crash
<1>5. \A n \in Names : /\ Load(p, n)' = 0
                       /\ \A q \in Procs : q # p => Load(q, n)' = Load(q, n)
  BY <1>2, <1>3 DEF Load
<1>6. Bounded'
  BY <1>5, CronAssumption DEF Bounded
<1>7. MemoryRunsAreExclusive'
  BY <1>2, <1>3 DEF MemoryRunsAreExclusive
<1>8. RowsStay'
  BY <1>0, <1>2, <1>3, <1>4, <1>5 DEF RowsStay
<1>9. DeadOrAlone'
  BY <1>0, <1>2, <1>3, <1>4, <1>5 DEF DeadOrAlone
<1>10. Locks'
  BY <1>0, <1>2, <1>3, <1>4, <1>5 DEF Locks, Locked
<1> QED BY <1>1, <1>6, <1>7, <1>8, <1>9, <1>10

\* A task is registered.
LEMMA ScheduleKeeps ==
    ASSUME CronInv, NEW p \in Procs, NEW n \in Names, NEW e \in Exprs, Schedule(p, n, e)
    PROVE  CronInv'
<1> USE DEF CronInv
<1>1. /\ tasks' \in [Procs -> [Names -> Exprs \cup {None}]]
      /\ \A q \in Procs : q # p => tasks'[q] = tasks[q]
      /\ up[p] /\ up' = up /\ db' = db /\ wasReset' = wasReset /\ tick' = tick /\ memory' = memory
      /\ body' = body /\ ending' = ending /\ together' = together
      /\ faults' \in BOOLEAN /\ (faults => faults')
  <2>1. up[p] /\ tasks' = [tasks EXCEPT ![p][n] = e]
    BY DEF Schedule
  <2>2. tasks' \in [Procs -> [Names -> Exprs \cup {None}]] /\ \A q \in Procs : q # p => tasks'[q] = tasks[q]
    BY <2>1 DEF Types
  <2>3. /\ up' = up /\ db' = db /\ wasReset' = wasReset /\ tick' = tick /\ memory' = memory
        /\ body' = body /\ ending' = ending /\ together' = together
    BY DEF Schedule, runs
  <2>4. faults' \in BOOLEAN /\ (faults => faults')
    BY FaultsStay DEF Schedule, Types
  <2> QED BY <2>1, <2>2, <2>3, <2>4
<1>2. /\ rows' \in [Names -> Row \cup {None}]
      /\ \A m \in Names : /\ rows[m] # None => rows'[m] # None /\ rows'[m].running = rows[m].running
                          /\ rows[m] = None /\ rows'[m] # None => ~rows'[m].running
  <2>1. CASE rows' = rows
    BY <2>1 DEF Types
  <2>2. CASE rows' = Registered(n, e)
    <3>1. CASE rows[n] = None
      <4>1. rows' = [rows EXCEPT ![n] = [schedule |-> e, running |-> FALSE]]
        BY <2>2, <3>1 DEF Registered, Types
      <4>2. [schedule |-> e, running |-> FALSE] \in Row
        BY DEF Row
      <4> QED BY <3>1, <4>1, <4>2, CronAssumption DEF Types
    <3>2. CASE rows[n] # None
      <4>1. rows[n] \in Row
        BY <3>2 DEF Types
      <4>2. PICK r \in Row : r = [rows[n] EXCEPT !.schedule = e] /\ r.running = rows[n].running
        BY <4>1, Rescheduling
      <4>3. rows' = [rows EXCEPT ![n] = r]
        BY <2>2, <3>2, <4>2 DEF Registered, Types
      <4> QED BY <3>2, <4>2, <4>3, CronAssumption DEF Types
    <3> QED BY <3>1, <3>2
  <2> QED BY <2>1, <2>2 DEF Schedule
<1>3. Types'
  BY <1>1, <1>2 DEF Types
<1>4. \A q \in Procs, m \in Names : Load(q, m)' = Load(q, m)
  BY <1>1 DEF Load
<1>5. Bounded' /\ MemoryRunsAreExclusive'
  BY <1>1, <1>4 DEF Bounded, MemoryRunsAreExclusive
<1>6. DeadOrAlone'
  BY <1>1, <1>4 DEF DeadOrAlone
<1>7. RowsStay'
  BY <1>1, <1>2, <1>4 DEF RowsStay
<1>8. Locks'
  <2> SUFFICES ASSUME ~faults, ~together, NEW q \in Procs, NEW m \in Names PROVE Locked(q, m)'
    BY <1>1 DEF Locks
  <2>1. Locked(q, m) /\ Load(q, m) \in Nat
    BY LoadIsANumber DEF Locks
  <2>2. Load(q, m) > 0 => rows[m] # None
    BY DEF RowsStay
  <2>3. tick[q].pc = "rows" /\ tick[q].rows[m] # None => rows[m] # None
    BY DEF RowsStay
  <2> QED BY <1>1, <1>2, <1>4, <2>1, <2>2, <2>3 DEF Locked
<1> QED BY <1>3, <1>5, <1>6, <1>7, <1>8

\* The ticker fires.
LEMMA TickBeginKeeps ==
    ASSUME CronInv, NEW p \in Procs, TickBegin(p)
    PROVE  CronInv'
<1> USE DEF CronInv
<1>1. /\ up[p] /\ up' = up /\ tasks' = tasks /\ wasReset' = wasReset /\ memory' = memory
      /\ rows' = rows /\ body' = body /\ ending' = ending /\ together' = together
      /\ db' \in [Procs -> BOOLEAN] /\ faults' \in BOOLEAN /\ (faults => faults')
  <2>1. /\ up[p] /\ up' = up /\ tasks' = tasks /\ wasReset' = wasReset /\ memory' = memory
        /\ rows' = rows /\ body' = body /\ ending' = ending /\ together' = together
    BY DEF TickBegin, runs
  <2>2. db' \in [Procs -> BOOLEAN]
    BY DEF TickBegin, Types
  <2>3. faults' \in BOOLEAN /\ (faults => faults')
    BY FaultsStay DEF TickBegin, Types
  <2> QED BY <2>1, <2>2, <2>3
<1>2. tick[p] = Idle
  BY TickForms DEF TickBegin, Types
<1>3. PICK t \in Ticks : /\ tick' = [tick EXCEPT ![p] = t]
                         /\ \/ t.pc = "reset" /\ ~wasReset[p]
                            \/ t.pc = "query" /\ wasReset[p]
                            \/ t.pc = "memory" /\ faults'
  <2>1. CASE \E now \in Times, pc \in {"reset", "query"} :
               /\ wasReset[p] <=> pc = "query"
               /\ tick' = [tick EXCEPT ![p] = [pc |-> pc, now |-> now, rows |-> Idle.rows]]
    <3>1. PICK now \in Times, pc \in {"reset", "query"} :
               /\ wasReset[p] <=> pc = "query"
               /\ tick' = [tick EXCEPT ![p] = [pc |-> pc, now |-> now, rows |-> Idle.rows]]
      BY <2>1
    <3>2. [pc |-> pc, now |-> now, rows |-> Idle.rows] \in Ticks
      BY DEF Ticks
    <3> QED BY <3>1, <3>2
  <2>2. CASE \E now \in Times :
               faults' /\ tick' = [tick EXCEPT ![p] = [pc |-> "memory", now |-> now, rows |-> tasks[p]]]
    <3>1. PICK now \in Times :
               faults' /\ tick' = [tick EXCEPT ![p] = [pc |-> "memory", now |-> now, rows |-> tasks[p]]]
      BY <2>2
    <3>2. [pc |-> "memory", now |-> now, rows |-> tasks[p]] \in Ticks
      BY DEF Ticks, Types
    <3> QED BY <3>1, <3>2
  <2> QED BY <2>1, <2>2 DEF TickBegin
<1>4. /\ tick'[p] = t /\ \A q \in Procs : q # p => tick'[q] = tick[q]
      /\ tick' \in [Procs -> Ticks]
  BY <1>3 DEF Types
<1>5. Types'
  BY <1>1, <1>4 DEF Types
<1>6. \A q \in Procs, m \in Names : Load(q, m)' = Load(q, m)
  BY <1>1 DEF Load
<1>7. Bounded' /\ MemoryRunsAreExclusive'
  BY <1>1, <1>6 DEF Bounded, MemoryRunsAreExclusive
<1>8. DeadOrAlone'
  BY <1>1, <1>3, <1>4, <1>6 DEF DeadOrAlone
<1>9. RowsStay'
  BY <1>1, <1>3, <1>4, <1>6 DEF RowsStay
<1>10. Locks'
  BY <1>1, <1>3, <1>4, <1>6 DEF Locks, Locked
<1> QED BY <1>5, <1>7, <1>8, <1>9, <1>10

\* The first tick of a process clears the marks.
LEMMA TickResetKeeps ==
    ASSUME CronInv, NEW p \in Procs, TickReset(p)
    PROVE  CronInv'
<1> USE DEF CronInv
<1>1. /\ tick[p].pc = "reset" /\ up' = up /\ tasks' = tasks /\ db' = db /\ memory' = memory
      /\ body' = body /\ ending' = ending /\ together' = together
  BY DEF TickReset, runs
<1>2. faults' \in BOOLEAN /\ (faults => faults')
  BY FaultsStay DEF TickReset, Types
<1>3. up[p] /\ ~wasReset[p]
  BY <1>1, BusyAreAlive DEF RowsStay
<1>4. /\ wasReset' \in [Procs -> BOOLEAN] /\ wasReset'[p]
      /\ \A q \in Procs : q # p => wasReset'[q] = wasReset[q]
  BY DEF TickReset, Types
<1>5. /\ tick' \in [Procs -> Ticks] /\ tick'[p].pc = "query"
      /\ \A q \in Procs : q # p => tick'[q] = tick[q]
  <2>1. tick[p] \in Ticks
    BY DEF Types
  <2>2. PICK t : t = [tick[p] EXCEPT !.pc = "query"]
    OBVIOUS
  <2>3. t \in Ticks /\ t.pc = "query"
    BY <1>1, <2>1, <2>2 DEF Ticks
  <2>4. tick' = [tick EXCEPT ![p] = t]
    BY <2>2 DEF TickReset, Goto
  <2> QED BY <2>3, <2>4 DEF Types
<1>6. /\ rows' \in [Names -> Row \cup {None}]
      /\ \A m \in Names : rows[m] # None => rows'[m] # None
      /\ faults' \/ \A m \in Names : rows'[m] # None => ~rows'[m].running
  <2>1. CASE rows' = rows /\ faults'
    BY <2>1 DEF Types
  <2>2. CASE rows' = [m \in Names |-> IF rows[m] = None THEN None ELSE Released(rows[m])]
    <3>1. \A m \in Names : rows[m] # None => /\ Released(rows[m]) \in Row
                                             /\ Released(rows[m]).running = FALSE
      BY Marking DEF Released, Types
    <3> QED BY <2>2, <3>1, CronAssumption
  <2> QED BY <2>1, <2>2 DEF TickReset
<1>7. Types'
  BY <1>1, <1>2, <1>4, <1>5, <1>6 DEF Types
<1>8. \A q \in Procs, m \in Names : Load(q, m)' = Load(q, m)
  BY <1>1 DEF Load
<1>9. Bounded' /\ MemoryRunsAreExclusive'
  BY <1>1, <1>8 DEF Bounded, MemoryRunsAreExclusive
<1>10. DeadOrAlone'
  BY <1>1, <1>2, <1>3, <1>4, <1>5, <1>8 DEF DeadOrAlone
<1>11. RowsStay'
  BY <1>1, <1>4, <1>5, <1>6, <1>8 DEF RowsStay
<1>12. Locks'
  <2> SUFFICES ASSUME ~faults', ~together, NEW q \in Procs, NEW m \in Names PROVE Locked(q, m)'
    BY <1>1 DEF Locks
  <2>1. Locked(q, m) /\ Load(q, m) \in Nat /\ (rows'[m] # None => ~rows'[m].running)
    BY <1>2, <1>6, LoadIsANumber DEF Locks
  <2>2. CASE q = p
    <3>1. Load(p, m) = 0
      BY <1>3, <2>1, <2>2 DEF Locked
    <3> QED BY <1>5, <1>8, <2>1, <2>2, <3>1 DEF Locked
  <2>3. CASE q # p
    <3>1. tick'[q].pc = "idle" /\ ~wasReset'[q] /\ Load(q, m)' = 0
      BY <1>3, <1>4, <1>5, <1>8, <2>3, OthersAreDead
    <3> QED BY <3>1 DEF Locked
  <2> QED BY <2>2, <2>3
<1> QED BY <1>7, <1>9, <1>10, <1>11, <1>12

\* The rows are read.
LEMMA TickQueryKeeps ==
    ASSUME CronInv, NEW p \in Procs, TickQuery(p)
    PROVE  CronInv'
<1> USE DEF CronInv
<1>1. /\ tick[p].pc = "query" /\ up' = up /\ tasks' = tasks /\ db' = db /\ memory' = memory
      /\ wasReset' = wasReset /\ body' = body /\ ending' = ending /\ together' = together
  BY DEF TickQuery, runs
<1>2. faults' \in BOOLEAN /\ (faults => faults')
  BY FaultsStay DEF TickQuery, Types
<1>3. up[p] /\ wasReset[p]
  BY <1>1, BusyAreAlive DEF RowsStay
<1>4. /\ rows' \in [Names -> Row \cup {None}]
      /\ \A m \in Names : /\ rows[m] # None => rows'[m] = rows[m]
                          /\ rows[m] = None /\ rows'[m] # None => ~rows'[m].running
  <2>1. \A m \in Names : tasks[p][m] # None => [schedule |-> tasks[p][m], running |-> FALSE] \in Row
    BY DEF Row, Types
  <2>2. rows' = Synced(p)
    BY DEF TickQuery
  <2>3. rows' \in [Names -> Row \cup {None}]
    BY <2>1, <2>2 DEF Synced, Types
  <2>4. \A m \in Names : rows[m] # None => rows'[m] = rows[m]
    BY <2>2 DEF Synced
  <2>5. ASSUME NEW m \in Names, rows[m] = None, rows'[m] # None PROVE ~rows'[m].running
    <3>1. rows'[m] = [schedule |-> tasks[p][m], running |-> FALSE]
      BY <2>2, <2>5 DEF Synced
    <3> QED BY <3>1
  <2> QED BY <2>3, <2>4, <2>5
<1>5. PICK t \in Ticks : /\ tick' = [tick EXCEPT ![p] = t]
                         /\ \/ t.pc = "rows" /\ t.rows = rows'
                            \/ t.pc = "memory" /\ faults'
  <2>1. tick[p].now \in Times
    BY <1>1, TickForms DEF Types
  <2>2. CASE tick' = [tick EXCEPT ![p] = [pc |-> "rows", now |-> @.now, rows |-> rows']]
    <3>1. [pc |-> "rows", now |-> tick[p].now, rows |-> rows'] \in Ticks
      BY <1>4, <2>1 DEF Ticks
    <3> QED BY <2>2, <3>1
  <2>3. CASE faults' /\ tick' = [tick EXCEPT ![p] = [pc |-> "memory", now |-> @.now, rows |-> tasks[p]]]
    <3>1. [pc |-> "memory", now |-> tick[p].now, rows |-> tasks[p]] \in Ticks
      BY <2>1 DEF Ticks, Types
    <3> QED BY <2>3, <3>1
  <2> QED BY <2>2, <2>3 DEF TickQuery
<1>6. /\ tick'[p] = t /\ \A q \in Procs : q # p => tick'[q] = tick[q]
      /\ tick' \in [Procs -> Ticks]
  BY <1>5 DEF Types
<1>7. Types'
  BY <1>1, <1>2, <1>4, <1>6 DEF Types
<1>8. \A q \in Procs, m \in Names : Load(q, m)' = Load(q, m)
  BY <1>1 DEF Load
<1>9. Bounded' /\ MemoryRunsAreExclusive'
  BY <1>1, <1>8 DEF Bounded, MemoryRunsAreExclusive
<1>10. DeadOrAlone'
  BY <1>1, <1>2, <1>3, <1>5, <1>6, <1>8 DEF DeadOrAlone
<1>11. RowsStay'
  BY <1>1, <1>3, <1>4, <1>5, <1>6, <1>8 DEF RowsStay
<1>12. Locks'
  <2> SUFFICES ASSUME ~faults', ~together, NEW q \in Procs, NEW m \in Names PROVE Locked(q, m)'
    BY <1>1 DEF Locks
  <2>1. Locked(q, m) /\ Load(q, m) \in Nat
    BY <1>2, LoadIsANumber DEF Locks
  <2>2. Load(q, m) > 0 => rows[m] # None
    BY DEF RowsStay
  <2>3. CASE q = p
    BY <1>1, <1>3, <1>4, <1>5, <1>6, <1>8, <2>1, <2>2, <2>3 DEF Locked
  <2>4. CASE q # p
    <3>1. tick'[q].pc = "idle" /\ ~wasReset'[q] /\ Load(q, m)' = 0
      BY <1>1, <1>3, <1>6, <1>8, <2>4, OthersAreDead
    <3> QED BY <3>1 DEF Locked
  <2> QED BY <2>3, <2>4
<1> QED BY <1>7, <1>9, <1>10, <1>11, <1>12

\* A row or a task is passed over, by a tick over rows or over the tasks in memory.
LEMMA PassingKeeps ==
    ASSUME CronInv, NEW p \in Procs, NEW n \in Names, Visited(p, n),
           tick[p].pc \in {"rows", "memory"}, UNCHANGED <<up, tasks, db, wasReset, memory, rows, runs, history>>
    PROVE  CronInv'
<1> USE DEF CronInv
<1>1. /\ up' = up /\ tasks' = tasks /\ db' = db /\ memory' = memory /\ rows' = rows
      /\ wasReset' = wasReset /\ body' = body /\ ending' = ending
      /\ faults' = faults /\ together' = together
  BY DEF runs, history
<1>2. up[p]
  BY BusyAreAlive
<1>3. /\ tick' \in [Procs -> Ticks] /\ tick'[p].pc = tick[p].pc
      /\ \A q \in Procs : q # p => tick'[q] = tick[q]
      /\ \A m \in Names : tick'[p].rows[m] # None => tick'[p].rows[m] = tick[p].rows[m]
  BY VisitedChanges DEF Types
<1>4. Types'
  BY <1>1, <1>3 DEF Types
<1>5. \A q \in Procs, m \in Names : Load(q, m)' = Load(q, m)
  BY <1>1 DEF Load
<1>6. Bounded' /\ MemoryRunsAreExclusive'
  BY <1>1, <1>5 DEF Bounded, MemoryRunsAreExclusive
<1>7. DeadOrAlone'
  BY <1>1, <1>2, <1>3, <1>5 DEF DeadOrAlone
<1>8. RowsStay'
  BY <1>1, <1>3, <1>5 DEF RowsStay
<1>9. Locks'
  BY <1>1, <1>3, <1>5 DEF Locks, Locked
<1> QED BY <1>4, <1>6, <1>7, <1>8, <1>9

\* A task is marked and started.
LEMMA RunCronTaskKeeps ==
    ASSUME CronInv, NEW p \in Procs, NEW n \in Names, RunCronTask(p, n)
    PROVE  CronInv'
<1> USE DEF CronInv
<1>1. /\ up' = up /\ tasks' = tasks /\ db' = db /\ memory' = memory
      /\ wasReset' = wasReset /\ ending' = ending /\ together' = together
      /\ tick[p].pc = "rows" /\ tick[p].rows[n] # None /\ ~tick[p].rows[n].running
  BY DEF RunCronTask, Due
<1>2. faults' \in BOOLEAN /\ (faults => faults')
  BY FaultsStay DEF RunCronTask, Types
<1>3. up[p] /\ wasReset[p] /\ rows[n] # None /\ rows[n] \in Row
  BY <1>1, BusyAreAlive DEF RowsStay, Types
<1>4. /\ tick' \in [Procs -> Ticks] /\ tick'[p].pc = "rows" /\ tick'[p].rows[n] = None
      /\ \A q \in Procs : q # p => tick'[q] = tick[q]
      /\ \A m \in Names : m # n => tick'[p].rows[m] = tick[p].rows[m]
  <2>1. Visited(p, n)
    BY DEF RunCronTask
  <2> QED BY <1>1, <2>1, VisitedChanges DEF Types
<1>5. CASE UNCHANGED <<rows, body>> /\ faults'
  <2>1. Types'
    BY <1>1, <1>2, <1>4, <1>5 DEF Types
  <2>2. \A q \in Procs, m \in Names : Load(q, m)' = Load(q, m)
    BY <1>1, <1>5 DEF Load
  <2>3. Bounded' /\ MemoryRunsAreExclusive'
    BY <1>1, <1>5, <2>2 DEF Bounded, MemoryRunsAreExclusive
  <2>4. DeadOrAlone'
    BY <1>1, <1>2, <1>3, <1>4, <1>5, <2>2 DEF DeadOrAlone
  <2>5. RowsStay'
    BY <1>1, <1>4, <1>5, <2>2 DEF RowsStay
  <2>6. Locks'
    BY <1>5 DEF Locks
  <2> QED BY <2>1, <2>3, <2>4, <2>5, <2>6
<1>6. CASE /\ rows' = [rows EXCEPT ![n] = [@ EXCEPT !.running = TRUE]]
           /\ body' = [body EXCEPT !["database"][p][n] = @ + 1]
           /\ UNCHANGED faults
  <2>1. /\ rows' \in [Names -> Row \cup {None}] /\ rows'[n] \in Row /\ rows'[n].running = TRUE
        /\ \A m \in Names : m # n => rows'[m] = rows[m]
    <3>1. PICK r \in Row : r = [rows[n] EXCEPT !.running = TRUE] /\ r.running = TRUE
      BY <1>3, Marking
    <3>2. rows' = [rows EXCEPT ![n] = r]
      BY <1>6, <3>1 DEF Types
    <3> QED BY <3>1, <3>2 DEF Types
  <2>2. rows'[n] # None
    BY <2>1, CronAssumption
  <2>3. body["database"][p][n] + 1 \in Nat
    BY LoadIsANumber
  <2>4. "database" \in Stores /\ "memory" \in Stores
    BY DEF Stores
  <2>5. /\ body' \in [Stores -> [Procs -> [Names -> Nat]]]
        /\ \A s \in Stores, q \in Procs, m \in Names :
              body'[s][q][m] = IF s = "database" /\ q = p /\ m = n
                               THEN body["database"][p][n] + 1 ELSE body[s][q][m]
    BY <1>6, <2>3, <2>4, BodyChanges DEF Types
  <2>6. Types'
    BY <1>1, <1>2, <1>4, <2>1, <2>5 DEF Types
  <2>7. \A q \in Procs, m \in Names :
           Load(q, m)' = IF q = p /\ m = n THEN Load(p, n) + 1 ELSE Load(q, m)
    <3>1. \A q \in Procs, m \in Names :
             body'["database"][q][m] = IF q = p /\ m = n
                               THEN body["database"][p][n] + 1 ELSE body["database"][q][m]
      BY <2>4, <2>5
    <3> QED BY <1>1, <3>1, LoadIsANumber DEF Load
  <2>8. Bounded'
    <3>1. Load(p, n) + 1 <= MaxRuns
      BY LoadIsANumber, CronAssumption DEF RunCronTask, Free
    <3> QED BY <2>7, <3>1 DEF Bounded
  <2>9. MemoryRunsAreExclusive'
    <3>1. \A q \in Procs, m \in Names : body'["memory"][q][m] = body["memory"][q][m]
      BY <2>4, <2>5
    <3> QED BY <1>1, <3>1 DEF MemoryRunsAreExclusive
  <2>10. DeadOrAlone'
    <3>1. \A q \in Procs : ~up[q] => q # p
      BY <1>3
    <3> QED BY <1>1, <1>4, <1>6, <2>7, <3>1 DEF DeadOrAlone
  <2>11. RowsStay'
    BY <1>1, <1>3, <1>4, <2>1, <2>2, <2>7 DEF RowsStay
  <2>12. Locks'
    <3> SUFFICES ASSUME ~faults, ~together, NEW q \in Procs, NEW m \in Names PROVE Locked(q, m)'
      BY <1>1, <1>6 DEF Locks
    <3>1. Locked(q, m) /\ Load(q, m) \in Nat /\ Locked(p, n) /\ Load(p, n) \in Nat
      BY LoadIsANumber DEF Locks
    <3>2. CASE q # p
      <4>1. tick'[q].pc = "idle" /\ ~wasReset'[q] /\ Load(q, m)' = 0
        BY <1>1, <1>3, <1>4, <2>7, <3>2, OthersAreDead
      <4> QED BY <4>1 DEF Locked
    <3>3. CASE q = p /\ m = n
      <4>1. Load(p, n) = 0
        BY <1>1, <3>1 DEF Locked
      <4> QED BY <1>1, <1>3, <1>4, <2>1, <2>7, <3>3, <4>1 DEF Locked
    <3>4. CASE q = p /\ m # n
      BY <1>1, <1>4, <2>1, <2>7, <3>1, <3>4 DEF Locked
    <3> QED BY <3>2, <3>3, <3>4
  <2> QED BY <2>6, <2>8, <2>9, <2>10, <2>11, <2>12
<1> QED BY <1>5, <1>6 DEF RunCronTask

\* A task is started from memory: only after a fault.
LEMMA TickMemoryRunKeeps ==
    ASSUME CronInv, NEW p \in Procs, NEW n \in Names, TickMemoryRun(p, n)
    PROVE  CronInv'
<1> USE DEF CronInv
<1>1. /\ up' = up /\ tasks' = tasks /\ db' = db /\ rows' = rows /\ wasReset' = wasReset
      /\ ending' = ending /\ faults' = faults /\ together' = together
      /\ tick[p].pc = "memory" /\ n \notin memory[p]
  BY DEF TickMemoryRun, history
<1>2. up[p] /\ faults
  BY <1>1, BusyAreAlive DEF DeadOrAlone
<1>3. /\ tick' \in [Procs -> Ticks] /\ tick'[p].pc = "memory"
      /\ \A q \in Procs : q # p => tick'[q] = tick[q]
  BY <1>1, VisitedChanges DEF TickMemoryRun, Types
<1>4. /\ memory' \in [Procs -> SUBSET Names] /\ memory'[p] = memory[p] \cup {n}
      /\ \A q \in Procs : q # p => memory'[q] = memory[q]
  BY DEF TickMemoryRun, Types
<1>5. "database" \in Stores /\ "memory" \in Stores /\ body["memory"][p][n] + 1 \in Nat
  BY LoadIsANumber DEF Stores
<1>6. /\ body' \in [Stores -> [Procs -> [Names -> Nat]]]
      /\ \A s \in Stores, q \in Procs, m \in Names :
            body'[s][q][m] = IF s = "memory" /\ q = p /\ m = n
                             THEN body["memory"][p][n] + 1 ELSE body[s][q][m]
  <2>1. body' = [body EXCEPT !["memory"][p][n] = @ + 1]
    BY DEF TickMemoryRun
  <2> QED BY <1>5, <2>1, BodyChanges DEF Types
<1>7. Types'
  BY <1>1, <1>3, <1>4, <1>6 DEF Types
<1>8. \A q \in Procs, m \in Names : Load(q, m)' = Load(q, m)
  <2>1. \A q \in Procs, m \in Names : body'["database"][q][m] = body["database"][q][m]
    BY <1>5, <1>6
  <2> QED BY <1>1, <2>1 DEF Load
<1>9. Bounded'
  BY <1>8 DEF Bounded
<1>10. MemoryRunsAreExclusive'
  <2>1. \A q \in Procs, m \in Names :
           body'["memory"][q][m] = IF q = p /\ m = n THEN body["memory"][p][n] + 1
                                   ELSE body["memory"][q][m]
    BY <1>5, <1>6
  <2> SUFFICES ASSUME NEW q \in Procs, NEW m \in Names
               PROVE  body'["memory"][q][m] = IF m \in memory'[q] THEN 1 ELSE 0
    BY DEF MemoryRunsAreExclusive
  <2>2. CASE q = p /\ m = n
    <3>1. body["memory"][p][n] = 0
      BY <1>1 DEF MemoryRunsAreExclusive
    <3> QED BY <1>4, <2>1, <2>2, <3>1
  <2>3. CASE ~(q = p /\ m = n)
    <3>1. m \in memory'[q] <=> m \in memory[q]
      BY <1>4, <2>3
    <3> QED BY <2>1, <2>3, <3>1 DEF MemoryRunsAreExclusive
  <2> QED BY <2>2, <2>3
<1>11. DeadOrAlone'
  <2>1. \A q \in Procs : ~up[q] => q # p
    BY <1>2
  <2> QED BY <1>1, <1>2, <1>3, <1>4, <1>8, <2>1 DEF DeadOrAlone
<1>12. RowsStay'
  BY <1>1, <1>3, <1>8 DEF RowsStay
<1>13. Locks'
  BY <1>1, <1>2 DEF Locks
<1> QED BY <1>7, <1>9, <1>10, <1>11, <1>12, <1>13

\* A tick is over.
LEMMA TickEndKeeps ==
    ASSUME CronInv, NEW p \in Procs, TickEnd(p)
    PROVE  CronInv'
<1> USE DEF CronInv
<1>1. /\ up' = up /\ tasks' = tasks /\ db' = db /\ memory' = memory /\ rows' = rows
      /\ wasReset' = wasReset /\ body' = body /\ ending' = ending
      /\ faults' = faults /\ together' = together
  BY DEF TickEnd, runs, history
<1>2. Idle \in Ticks /\ Idle.pc = "idle"
  BY DEF Idle, Ticks
<1>3. /\ tick' \in [Procs -> Ticks] /\ tick'[p] = Idle
      /\ \A q \in Procs : q # p => tick'[q] = tick[q]
  BY <1>2 DEF TickEnd, Types
<1>4. Types'
  BY <1>1, <1>3 DEF Types
<1>5. \A q \in Procs, m \in Names : Load(q, m)' = Load(q, m)
  BY <1>1 DEF Load
<1>6. Bounded' /\ MemoryRunsAreExclusive'
  BY <1>1, <1>5 DEF Bounded, MemoryRunsAreExclusive
<1>7. DeadOrAlone'
  BY <1>1, <1>2, <1>3, <1>5 DEF DeadOrAlone
<1>8. RowsStay'
  BY <1>1, <1>2, <1>3, <1>5 DEF RowsStay
<1>9. Locks'
  BY <1>1, <1>2, <1>3, <1>5 DEF Locks, Locked
<1> QED BY <1>4, <1>6, <1>7, <1>8, <1>9

\* A block ends, its outcome is still to be written.
LEMMA BodyEndsKeeps ==
    ASSUME CronInv, NEW p \in Procs, NEW n \in Names, BodyEnds(p, n)
    PROVE  CronInv'
<1> USE DEF CronInv
<1>1. /\ up' = up /\ tasks' = tasks /\ db' = db /\ memory' = memory /\ rows' = rows /\ tick' = tick
      /\ wasReset' = wasReset /\ faults' = faults /\ together' = together
  BY DEF BodyEnds, volatile, history
<1>2. /\ "database" \in Stores /\ "memory" \in Stores
      /\ body["database"][p][n] - 1 \in Nat /\ ending[p][n] + 1 \in Nat
  BY LoadIsANumber DEF Stores, BodyEnds
<1>3. /\ body' \in [Stores -> [Procs -> [Names -> Nat]]]
      /\ \A s \in Stores, q \in Procs, m \in Names :
            body'[s][q][m] = IF s = "database" /\ q = p /\ m = n
                             THEN body["database"][p][n] - 1 ELSE body[s][q][m]
  <2>1. body' = [body EXCEPT !["database"][p][n] = @ - 1]
    BY DEF BodyEnds
  <2> QED BY <1>2, <2>1, BodyChanges DEF Types
<1>4. /\ ending' \in [Procs -> [Names -> Nat]]
      /\ \A q \in Procs, m \in Names :
            ending'[q][m] = IF q = p /\ m = n THEN ending[p][n] + 1 ELSE ending[q][m]
  <2>1. ending' = [ending EXCEPT ![p][n] = @ + 1]
    BY DEF BodyEnds
  <2> QED BY <1>2, <2>1, EndingChanges DEF Types
<1>5. \A q \in Procs, m \in Names :
         /\ body'["memory"][q][m] = body["memory"][q][m]
         /\ body'["database"][q][m] = IF q = p /\ m = n
                             THEN body["database"][p][n] - 1 ELSE body["database"][q][m]
  BY <1>2, <1>3
<1>6. \A q \in Procs, m \in Names : Load(q, m)' = Load(q, m)
  <2> SUFFICES ASSUME NEW q \in Procs, NEW m \in Names PROVE Load(q, m)' = Load(q, m)
    OBVIOUS
  <2>1. CASE q = p /\ m = n
    <3>1. /\ body'["database"][p][n] = body["database"][p][n] - 1
          /\ ending'[p][n] = ending[p][n] + 1
      BY <1>4, <1>5
    <3>2. body["database"][p][n] \in Nat /\ ending[p][n] \in Nat
      BY LoadIsANumber
    <3>3. body'["database"][p][n] + ending'[p][n] = body["database"][p][n] + ending[p][n]
      BY ONLY <3>1, <3>2
    <3> QED BY <2>1, <3>3 DEF Load
  <2>2. CASE ~(q = p /\ m = n)
    BY <1>4, <1>5, <2>2 DEF Load
  <2> QED BY <2>1, <2>2
<1>7. Types'
  BY <1>1, <1>3, <1>4 DEF Types
<1>8. Bounded' /\ MemoryRunsAreExclusive'
  BY <1>1, <1>5, <1>6 DEF Bounded, MemoryRunsAreExclusive
<1>9. DeadOrAlone'
  BY <1>1, <1>6 DEF DeadOrAlone
<1>10. RowsStay'
  BY <1>1, <1>6 DEF RowsStay
<1>11. Locks'
  BY <1>1, <1>6 DEF Locks, Locked
<1> QED BY <1>7, <1>8, <1>9, <1>10, <1>11

\* An outcome is written, or its statement fails.
LEMMA OutcomeKeeps ==
    ASSUME CronInv, NEW p \in Procs, NEW n \in Names, NEW panicked \in BOOLEAN,
           Outcome(p, n, panicked)
    PROVE  CronInv'
<1> USE DEF CronInv
<1>1. /\ up' = up /\ tasks' = tasks /\ db' = db /\ memory' = memory /\ body' = body /\ tick' = tick
      /\ wasReset' = wasReset /\ together' = together
  BY DEF Outcome, volatile
<1>2. faults' \in BOOLEAN /\ (faults => faults')
  BY FaultsStay DEF Outcome, Types
<1>3. ending[p][n] > 0 /\ ending[p][n] - 1 \in Nat
  BY LoadIsANumber DEF Outcome
<1>4. /\ ending' \in [Procs -> [Names -> Nat]]
      /\ \A q \in Procs, m \in Names :
            ending'[q][m] = IF q = p /\ m = n THEN ending[p][n] - 1 ELSE ending[q][m]
  <2>1. ending' = [ending EXCEPT ![p][n] = @ - 1]
    BY DEF Outcome
  <2> QED BY <1>3, <2>1, EndingChanges DEF Types
<1>5. \A q \in Procs, m \in Names :
         Load(q, m)' = IF q = p /\ m = n THEN Load(p, n) - 1 ELSE Load(q, m)
  BY <1>1, <1>4, LoadIsANumber DEF Load
<1>6. Load(p, n) > 0 /\ rows[n] # None /\ rows[n] \in Row /\ up[p]
  <2>1. Load(p, n) > 0
    BY <1>3, LoadIsANumber
  <2> QED BY <2>1, BusyAreAlive DEF RowsStay, Types
<1>7. /\ rows' \in [Names -> Row \cup {None}]
      /\ \A m \in Names : m # n => rows'[m] = rows[m]
      /\ rows'[n] # None
      /\ faults' \/ ~rows'[n].running
  <2>1. CASE rows' = rows /\ faults'
    BY <1>6, <2>1 DEF Types
  <2>2. CASE rows' = [rows EXCEPT ![n] = [@ EXCEPT !.running = FALSE]]
    <3>1. PICK r \in Row : r = [rows[n] EXCEPT !.running = FALSE] /\ r.running = FALSE
      BY <1>6, Marking
    <3>2. rows' = [rows EXCEPT ![n] = r]
      BY <2>2, <3>1 DEF Types
    <3> QED BY <3>1, <3>2, CronAssumption DEF Types
  <2> QED BY <2>1, <2>2 DEF Outcome
<1>8. Types'
  BY <1>1, <1>2, <1>4, <1>7 DEF Types
<1>9. Bounded'
  BY <1>5, LoadIsANumber, CronAssumption DEF Bounded
<1>10. MemoryRunsAreExclusive'
  BY <1>1 DEF MemoryRunsAreExclusive
<1>11. DeadOrAlone'
  <2>1. \A q \in Procs : ~up[q] => q # p
    BY <1>6
  <2> QED BY <1>1, <1>2, <1>5, <2>1 DEF DeadOrAlone
<1>12. RowsStay'
  BY <1>1, <1>5, <1>7 DEF RowsStay
<1>13. Locks'
  <2> SUFFICES ASSUME ~faults', ~together, NEW q \in Procs, NEW m \in Names PROVE Locked(q, m)'
    BY <1>1 DEF Locks
  <2>1. Locked(q, m) /\ Load(q, m) \in Nat /\ Locked(p, n) /\ Load(p, n) \in Nat
    BY <1>2, LoadIsANumber DEF Locks
  <2>2. CASE q # p
    <3>1. tick'[q].pc = "idle" /\ ~wasReset'[q] /\ Load(q, m)' = 0
      BY <1>1, <1>5, <1>6, <2>2, OthersAreDead
    <3> QED BY <3>1 DEF Locked
  <2>3. CASE q = p /\ m = n
    <3>1. Load(p, n) = 1
      BY <1>6, <2>1 DEF Locked
    <3> QED BY <1>5, <1>7, <2>3, <3>1 DEF Locked
  <2>4. CASE q = p /\ m # n
    BY <1>1, <1>5, <1>7, <2>1, <2>4 DEF Locked
  <2> QED BY <2>2, <2>3, <2>4
<1> QED BY <1>8, <1>9, <1>10, <1>11, <1>12, <1>13

\* A task started from memory ends.
LEMMA MemoryEndsKeeps ==
    ASSUME CronInv, NEW p \in Procs, NEW n \in Names, MemoryEnds(p, n)
    PROVE  CronInv'
<1> USE DEF CronInv
<1>1. /\ up' = up /\ tasks' = tasks /\ db' = db /\ rows' = rows /\ wasReset' = wasReset /\ tick' = tick
      /\ ending' = ending /\ faults' = faults /\ together' = together
      /\ body["memory"][p][n] > 0
  BY DEF MemoryEnds, history
<1>2. n \in memory[p] /\ body["memory"][p][n] = 1
  BY <1>1 DEF MemoryRunsAreExclusive
<1>3. /\ memory' \in [Procs -> SUBSET Names] /\ memory'[p] = memory[p] \ {n}
      /\ \A q \in Procs : q # p => memory'[q] = memory[q]
  BY DEF MemoryEnds, Types
<1>4. "database" \in Stores /\ "memory" \in Stores
  BY DEF Stores
<1>5. /\ body' \in [Stores -> [Procs -> [Names -> Nat]]]
      /\ \A s \in Stores, q \in Procs, m \in Names :
            body'[s][q][m] = IF s = "memory" /\ q = p /\ m = n THEN 0 ELSE body[s][q][m]
  <2>1. body' = [body EXCEPT !["memory"][p][n] = body["memory"][p][n] - 1]
    BY DEF MemoryEnds
  <2>2. body' = [body EXCEPT !["memory"][p][n] = 0]
    BY <1>2, <2>1
  <2> QED BY <1>4, <2>2, BodyChanges DEF Types
<1>6. Types'
  BY <1>1, <1>3, <1>5 DEF Types
<1>7. \A q \in Procs, m \in Names : Load(q, m)' = Load(q, m)
  <2>1. \A q \in Procs, m \in Names : body'["database"][q][m] = body["database"][q][m]
    BY <1>4, <1>5
  <2> QED BY <1>1, <2>1 DEF Load
<1>8. Bounded'
  BY <1>7 DEF Bounded
<1>9. MemoryRunsAreExclusive'
  <2>1. \A q \in Procs, m \in Names :
           body'["memory"][q][m] = IF q = p /\ m = n THEN 0 ELSE body["memory"][q][m]
    BY <1>4, <1>5
  <2> SUFFICES ASSUME NEW q \in Procs, NEW m \in Names
               PROVE  body'["memory"][q][m] = IF m \in memory'[q] THEN 1 ELSE 0
    BY DEF MemoryRunsAreExclusive
  <2>2. CASE q = p /\ m = n
    BY <1>3, <2>1, <2>2
  <2>3. CASE ~(q = p /\ m = n)
    <3>1. m \in memory'[q] <=> m \in memory[q]
      BY <1>3, <2>3
    <3> QED BY <2>1, <2>3, <3>1 DEF MemoryRunsAreExclusive
  <2> QED BY <2>2, <2>3
<1>10. DeadOrAlone'
  <2>1. \A q \in Procs : memory[q] = {} => memory'[q] = {}
    BY <1>2, <1>3
  <2> QED BY <1>1, <1>7, <2>1 DEF DeadOrAlone
<1>11. RowsStay'
  BY <1>1, <1>7 DEF RowsStay
<1>12. Locks'
  BY <1>1, <1>7 DEF Locks, Locked
<1> QED BY <1>6, <1>8, <1>9, <1>10, <1>11, <1>12

\* Every step keeps the invariant.
LEMMA CronInvStep == CronInv /\ [Next]_vars => CronInv'
<1> SUFFICES ASSUME CronInv, [Next]_vars PROVE CronInv'
  OBVIOUS
<1>1. CASE UNCHANGED vars
  BY <1>1 DEF vars, volatile, runs, history, CronInv, Types, Bounded, MemoryRunsAreExclusive, DeadOrAlone,
     RowsStay, Locks, Locked, Load
<1>2. ASSUME NEW p \in Procs, Start(p) \/ Crash(p) PROVE CronInv'
  BY <1>2, StartKeeps, CrashKeeps
<1>3. ASSUME NEW p \in Procs, TickStep(p) PROVE CronInv'
  <2>1. CASE TickBegin(p) \/ TickReset(p) \/ TickQuery(p) \/ TickEnd(p)
    BY <2>1, TickBeginKeeps, TickResetKeeps, TickQueryKeeps, TickEndKeeps
  <2>2. ASSUME NEW n \in Names, TickSkip(p, n) PROVE CronInv'
    BY <2>2, PassingKeeps DEF TickSkip
  <2>3. ASSUME NEW n \in Names, RunCronTask(p, n) PROVE CronInv'
    BY <2>3, RunCronTaskKeeps
  <2>4. ASSUME NEW n \in Names, TickMemorySkip(p, n) PROVE CronInv'
    BY <2>4, PassingKeeps DEF TickMemorySkip
  <2>5. ASSUME NEW n \in Names, TickMemoryRun(p, n) PROVE CronInv'
    BY <2>5, TickMemoryRunKeeps
  <2> QED BY <1>3, <2>1, <2>2, <2>3, <2>4, <2>5 DEF TickStep
<1>4. ASSUME NEW p \in Procs, NEW n \in Names, TaskStep(p, n) PROVE CronInv'
  BY <1>4, BodyEndsKeeps, MemoryEndsKeeps, OutcomeKeeps DEF TaskStep
<1>5. ASSUME NEW p \in Procs, NEW n \in Names, NEW e \in Exprs, Schedule(p, n, e) PROVE CronInv'
  BY <1>5, ScheduleKeeps
<1> QED BY <1>1, <1>2, <1>3, <1>4, <1>5 DEF Next

--------------------------------------------------------------------------------
(* The theorems.                                                           *)

\* The inductive invariant holds in every reachable state.
THEOREM CronInductive == Spec => []CronInv
<1>1. Init => CronInv
  <2> SUFFICES ASSUME Init PROVE CronInv
    OBVIOUS
  <2>1. /\ Idle \in Ticks /\ Idle.pc = "idle" /\ NoTasks \in [Names -> Exprs \cup {None}]
        /\ NoRuns \in [Names -> Nat]
    BY DEF Idle, Ticks, NoTasks, NoRuns
  <2>2. Types
    BY <2>1 DEF Init, Types
  <2>3. \A p \in Procs, n \in Names : Load(p, n) = 0 /\ body["memory"][p][n] = 0 /\ rows[n] = None
    BY DEF Init, Load, Stores, NoRuns
  <2>4. \A p \in Procs : tick[p] = Idle /\ ~wasReset[p] /\ memory[p] = {} /\ tasks[p] = NoTasks /\ ~up[p]
    BY DEF Init
  <2>5. Bounded /\ MemoryRunsAreExclusive
    BY <2>3, <2>4, CronAssumption DEF Bounded, MemoryRunsAreExclusive
  <2>6. DeadOrAlone /\ RowsStay
    BY <2>1, <2>3, <2>4 DEF DeadOrAlone, RowsStay
  <2>7. Locks
    BY <2>1, <2>3, <2>4 DEF Locks, Locked
  <2> QED BY <2>2, <2>5, <2>6, <2>7 DEF CronInv
<1>2. QED BY <1>1, CronInvStep, PTL DEF Spec

\* Every variable has its type, for any number of processes and tasks.
THEOREM CronIsTyped == Spec => []TypeOK
<1>1. CronInv => TypeOK
  <2> SUFFICES ASSUME CronInv PROVE TypeOK
    OBVIOUS
  <2>1. Types
    BY DEF CronInv
  <2>2. \A p \in Procs : /\ tick[p].pc \in {"idle", "reset", "query", "rows", "memory"}
                         /\ memory[p] \subseteq Names
    BY <2>1, TickForms DEF Types
  <2>3. \A p \in Procs, n \in Names : /\ body["database"][p][n] \in 0..MaxRuns
                                      /\ body["memory"][p][n] \in 0..MaxRuns
                                      /\ ending[p][n] \in 0..MaxRuns
    <3> SUFFICES ASSUME NEW p \in Procs, NEW n \in Names
                 PROVE  /\ body["database"][p][n] \in 0..MaxRuns
                        /\ body["memory"][p][n] \in 0..MaxRuns
                        /\ ending[p][n] \in 0..MaxRuns
      OBVIOUS
    <3>1. Load(p, n) <= MaxRuns
      BY DEF CronInv, Bounded
    <3>2. body["memory"][p][n] \in {0, 1}
      BY DEF CronInv, MemoryRunsAreExclusive
    <3> QED BY <2>1, <3>1, <3>2, LoadIsANumber, CronAssumption
  <2>4. /\ body \in [Stores -> [Procs -> [Names -> 0..MaxRuns]]]
        /\ ending \in [Procs -> [Names -> 0..MaxRuns]]
    BY <2>1, <2>3 DEF Types, Stores
  <2> QED BY <2>1, <2>2, <2>4 DEF TypeOK, Types
<1>2. QED BY <1>1, CronInductive, PTL

\* As long as no statement has failed and no two processes have been alive at
\* once, a task has one run at most and its row is marked exactly while it runs;
\* and whatever fails, a task is in memory once (TickCron, RunCronTask).
THEOREM CronRunsAreExclusive == Spec => []RunsAreExclusive
<1>1. CronInv => RunsAreExclusive
  <2> SUFFICES ASSUME CronInv PROVE RunsAreExclusive
    OBVIOUS
  <2> SUFFICES ASSUME ~faults, ~together, NEW n \in Names
               PROVE  /\ Cardinality(RunsOf(n)) <= 1
                      /\ \A x \in RunsOf(n) : body[x[1]][x[2]][n] = 1 /\ rows[n].running
                      /\ \A p \in Procs :
                           wasReset[p] /\ rows[n] # None /\ rows[n].running =>
                               body["database"][p][n] + ending[p][n] = 1
    BY DEF CronInv, RunsAreExclusive, TheLockIsTheRun
  <2>1. \A p \in Procs : Locked(p, n)
    BY DEF CronInv, Locks
  <2>2. \A p \in Procs : body["memory"][p][n] = 0
    BY DEF CronInv, DeadOrAlone, MemoryRunsAreExclusive
  <2>3. \A x \in RunsOf(n) : /\ x[1] = "database" /\ x[2] \in Procs /\ x = <<x[1], x[2]>>
                             /\ body["database"][x[2]][n] > 0
    BY <2>2 DEF RunsOf, Stores
  <2>4. \A x \in RunsOf(n) : /\ body["database"][x[2]][n] = 1 /\ rows[n].running
                             /\ up[x[2]]
    <3> SUFFICES ASSUME NEW x \in RunsOf(n)
                 PROVE  body["database"][x[2]][n] = 1 /\ rows[n].running /\ up[x[2]]
      OBVIOUS
    <3>1. PICK p \in Procs : p = x[2] /\ body["database"][p][n] > 0
      BY <2>3
    <3>2. Load(p, n) > 0 /\ Load(p, n) <= 1 /\ body["database"][p][n] = 1 /\ Load(p, n) = 1
      BY <2>1, <3>1, LoadIsANumber DEF CronInv, Locked
    <3>3. up[p]
      BY <3>2, BusyAreAlive
    <3> QED BY <2>1, <3>1, <3>2, <3>3 DEF Locked
  <2>5. \A x, y \in RunsOf(n) : x = y
    BY <2>3, <2>4 DEF CronInv, DeadOrAlone
  <2>6. Cardinality(RunsOf(n)) <= 1
    <3>1. CASE RunsOf(n) = {}
      BY <3>1, FS_EmptySet
    <3>2. CASE RunsOf(n) # {}
      <4>1. PICK x : x \in RunsOf(n)
        BY <3>2
      <4>2. RunsOf(n) = {x}
        BY <2>5, <4>1
      <4>3. Cardinality({x}) = 1
        BY FS_Singleton
      <4> QED BY <4>2, <4>3
    <3> QED BY <3>1, <3>2
  <2> QED BY <2>1, <2>3, <2>4, <2>6 DEF Locked, Load
<1>2. QED BY <1>1, CronInductive, PTL

================================================================================
