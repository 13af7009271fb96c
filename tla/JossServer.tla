------------------------------- MODULE JossServer -------------------------------
(***************************************************************************)
(* The HTTP server's use of runtimes: the pool and life cycle of           *)
(* core/runtime_lifecycle.go, Fork of core/runtime.go, the request handler *)
(* of server/handler.go, hot reload of server/hotreload.go and the cron    *)
(* ticker of core/cron.go and core/cron_manager.go.                        *)
(*                                                                         *)
(* A runtime is an object that carries code, an environment and a database *)
(* handle.  Code is what the source units of one version of the project    *)
(* registered: classes, functions and routes.  A database handle is named  *)
(* by the version of the environment it was opened with.                   *)
(***************************************************************************)
EXTENDS Naturals, FiniteSets

CONSTANTS Runtimes,    \* the *Runtime objects (bound: how many at a time)
          Requests,    \* HTTP requests in progress
          Units,       \* source units of the project
          MaxSource,   \* bound: versions of the source, edited while it runs
          MaxEnv,      \* bound: versions of the environment file
          None

ASSUME ServerAssumption ==
    /\ None \notin Runtimes
    /\ MaxSource \in Nat \ {0}
    /\ MaxEnv \in Nat \ {0}

Versions == 1..MaxSource
NoVersion == 0

VARIABLES
    where,    \* [Runtimes -> {"unused", "owned", "pool"}]
    code,     \* [Runtimes -> SUBSET (Units \X Versions)]
    env,      \* [Runtimes -> 0..MaxEnv]  Runtime.Env
    db,       \* [Runtimes -> 0..MaxEnv]  Runtime.DB, 0 when nil
    source,   \* the version of the sources on disk
    dotenv,   \* the version of the environment file on disk
    current,  \* currentRuntime
    reload,   \* where the goroutine that reloads stands; it holds the lock
    candidate,\* the runtime under construction, or the one to free
    todo,     \* units still to be executed
    loading,  \* the version being loaded
    at,       \* [Requests -> {"idle", "arrived", "forking", "running"}]
    mine,     \* [Requests -> Runtimes \cup {None}]  rt in MainHandler
    ticker,   \* the runtime StartCronTicker was called on
    served,   \* history: versions that became the served program
    partial   \* history: the version kept although a unit panicked, or 0

objects == <<where, code, env, db>>
disk == <<source, dotenv>>
reloader == <<reload, candidate, todo, loading>>
handlers == <<at, mine>>
history == <<served, partial>>
vars == <<objects, disk, current, reloader, handlers, ticker, history>>

Program(v) == Units \X {v}
Served == IF current = None THEN {} ELSE code[current]
ReloadLocations == {"idle", "prepare", "load", "swap", "free", "down"}

Init ==
    /\ where = [r \in Runtimes |-> "unused"]
    /\ code = [r \in Runtimes |-> {}]
    /\ env = [r \in Runtimes |-> NoVersion]
    /\ db = [r \in Runtimes |-> NoVersion]
    /\ source = 1
    /\ dotenv = 1
    /\ current = None
    /\ reload = "prepare"      \* Start calls reloadApp("") first
    /\ candidate = None
    /\ todo = {}
    /\ loading = NoVersion
    /\ at = [q \in Requests |-> "idle"]
    /\ mine = [q \in Requests |-> None]
    /\ ticker = None
    /\ served = {}
    /\ partial = NoVersion

Serving == current # None /\ reload # "down"

-----------------------------------------------------------------------------
(* Runtimes: pool, fork and free.                                          *)

\* A Runtime allocated by Fork or by the pool's New.
Unused(r) == where[r] = "unused"

\* MUTANT: Free leaves the class, function and route tables.
FreeKeepsCode(r) ==
    /\ where' = [where EXCEPT ![r] = "pool"]
    /\ env' = [env EXCEPT ![r] = NoVersion]
    /\ UNCHANGED <<code, db>>
\* Free clears code and environment, keeps the database handle and puts the
\* object in the pool.
Free(r) ==
    /\ where' = [where EXCEPT ![r] = "pool"]
    /\ code' = [code EXCEPT ![r] = {}]
    /\ env' = [env EXCEPT ![r] = NoVersion]
    /\ UNCHANGED db

\* Fork copies everything but the owner.
ForkOf(base, r) ==
    /\ Unused(r)
    /\ where' = [where EXCEPT ![r] = "owned"]
    /\ code' = [code EXCEPT ![r] = code[base]]
    /\ env' = [env EXCEPT ![r] = env[base]]
    /\ db' = [db EXCEPT ![r] = db[base]]

\* The garbage collector empties the pool; an object the cron ticker still
\* points to is not collected.
Collect(r) ==
    /\ where[r] = "pool"
    /\ r # ticker
    /\ where' = [where EXCEPT ![r] = "unused"]
    /\ db' = [db EXCEPT ![r] = NoVersion]
    /\ UNCHANGED <<code, env, disk, current, reloader, handlers, ticker, history>>

-----------------------------------------------------------------------------
(* Hot reload, under the write lock.                                       *)

EditSource ==
    /\ source < MaxSource
    /\ source' = source + 1
    /\ UNCHANGED <<objects, dotenv, current, reloader, handlers, ticker, history>>

EditEnvironment ==
    /\ dotenv < MaxEnv
    /\ dotenv' = dotenv + 1
    /\ UNCHANGED <<objects, source, current, reloader, handlers, ticker, history>>

\* mutex.Lock() waits until no request is between RLock and RUnlock.
LockFree == \A q \in Requests : at[q] # "forking"

\* The watcher saw a change of a source file: mutex.Lock().
StartReload ==
    /\ Serving /\ reload = "idle"
    /\ LockFree
    /\ reload' = "prepare"
    /\ UNCHANGED <<objects, disk, current, candidate, todo, loading, handlers, ticker, history>>

\* The analysis rejects the sources.  Before the first program is served the
\* server goes down: Start reads the environment of a nil currentRuntime.
Reject ==
    /\ reload = "prepare"
    /\ reload' = IF current = None THEN "down" ELSE "idle"
    /\ UNCHANGED <<objects, disk, current, candidate, todo, loading, handlers, ticker, history>>

\* NewRuntime takes an object from the pool, or a new one; LoadEnv reads the
\* environment, and the units of the analysed version are to be executed.
Acquire(r) ==
    /\ reload = "prepare"
    /\ where[r] \in {"pool", "unused"}
    /\ where' = [where EXCEPT ![r] = "owned"]
    /\ env' = [env EXCEPT ![r] = dotenv]
    /\ candidate' = r
    /\ todo' = Units
    /\ loading' = source
    /\ reload' = "load"
    /\ UNCHANGED <<code, db, disk, current, handlers, ticker, history>>

\* The redis session store of the new environment does not answer: the
\* deferred Free drops the candidate before a unit runs.
SessionsUnavailable ==
    /\ reload = "load"
    /\ todo = Units
    /\ Free(candidate)
    /\ candidate' = None
    /\ todo' = {}
    /\ reload' = IF current = None THEN "down" ELSE "idle"
    /\ UNCHANGED <<disk, current, loading, handlers, ticker, history>>

\* MUTANT: a unit runs on the served runtime, as a partial reload would.
ExecuteInPlace(u) ==
    LET target == IF current = None THEN candidate ELSE current
    IN  /\ reload = "load"
        /\ u \in todo
        /\ code' = [code EXCEPT ![target] = @ \cup {<<u, loading>>}]
        /\ todo' = todo \ {u}
        /\ reload' = IF todo = {u} THEN "swap" ELSE "load"
        /\ UNCHANGED <<where, env, db, disk, current, candidate, loading, handlers, ticker, history>>
\* One unit runs to its end: its classes, functions and routes are registered.
ExecuteUnit(u) ==
    /\ reload = "load"
    /\ u \in todo
    /\ code' = [code EXCEPT ![candidate] = @ \cup {<<u, loading>>}]
    /\ todo' = todo \ {u}
    /\ reload' = IF todo = {u} THEN "swap" ELSE "load"
    /\ UNCHANGED <<where, env, db, disk, current, candidate, loading, handlers, ticker, history>>

\* A statement of a unit opens the database: GetDB keeps an open handle.
OpenDatabase ==
    /\ reload = "load"
    /\ db[candidate] = NoVersion
    /\ db' = [db EXCEPT ![candidate] = env[candidate]]
    /\ UNCHANGED <<where, code, env, disk, current, reloader, handlers, ticker, history>>

\* A statement of a unit calls Cron::schedule for the first time in the
\* process: go r.StartCronTicker() with the runtime that executes the unit.
Schedule ==
    /\ reload = "load"
    /\ ticker = None
    /\ ticker' = candidate
    /\ UNCHANGED <<objects, disk, current, reloader, handlers, history>>

\* A unit panics.  The deferred Free drops the candidate and the previous
\* runtime stays; at the start there is none and the candidate is kept.
UnitPanics ==
    /\ reload = "load"
    /\ reload' = "idle"
    /\ IF current = None
       THEN current' = candidate /\ UNCHANGED objects
       ELSE Free(candidate) /\ UNCHANGED current
    /\ candidate' = None
    /\ todo' = {}
    /\ partial' = IF current = None THEN loading ELSE partial
    /\ UNCHANGED <<disk, loading, handlers, ticker, served>>

\* previous := currentRuntime; currentRuntime = candidate
Swap ==
    /\ reload = "swap"
    /\ current' = candidate
    /\ candidate' = current
    /\ served' = served \cup {loading}
    /\ reload' = "free"
    /\ UNCHANGED <<objects, todo, loading, disk, handlers, ticker, partial>>

\* if previous != nil { previous.Free() }, and the deferred Unlock.
FreePrevious ==
    /\ reload = "free"
    /\ IF candidate = None THEN UNCHANGED objects ELSE Free(candidate)
    /\ candidate' = None
    /\ reload' = "idle"
    /\ UNCHANGED <<disk, current, todo, loading, handlers, ticker, history>>

\* A change of .env: LoadEnv on the runtime that is being served.
ReloadEnvironment ==
    /\ Serving /\ reload = "idle"
    /\ LockFree
    /\ env' = [env EXCEPT ![current] = dotenv]
    /\ UNCHANGED <<where, code, db, disk, current, reloader, handlers, ticker, history>>

-----------------------------------------------------------------------------
(* Requests.                                                               *)

Arrive(q) ==
    /\ Serving
    /\ at[q] = "idle"
    /\ at' = [at EXCEPT ![q] = "arrived"]
    /\ UNCHANGED <<objects, disk, current, reloader, mine, ticker, history>>

\* mutex.RLock(): waits while a reload holds the lock.
Admit(q) ==
    /\ at[q] = "arrived"
    /\ reload = "idle"
    /\ at' = [at EXCEPT ![q] = "forking"]
    /\ mine' = [mine EXCEPT ![q] = current]
    /\ UNCHANGED <<objects, disk, current, reloader, ticker, history>>

\* rt := currentRuntime.Fork(), then RUnlock.
Fork(q, r) ==
    /\ at[q] = "forking"
    /\ ForkOf(mine[q], r)
    /\ at' = [at EXCEPT ![q] = "running"]
    /\ mine' = [mine EXCEPT ![q] = r]
    /\ UNCHANGED <<disk, current, reloader, ticker, history>>

\* The handler opens the database of its fork.
UseDatabase(q) ==
    /\ at[q] = "running"
    /\ db[mine[q]] = NoVersion
    /\ db' = [db EXCEPT ![mine[q]] = env[mine[q]]]
    /\ UNCHANGED <<where, code, env, disk, current, reloader, handlers, ticker, history>>

\* The deferred function of MainHandler: recover, then rt.Free().
Respond(q) ==
    /\ at[q] = "running"
    /\ Free(mine[q])
    /\ at' = [at EXCEPT ![q] = "idle"]
    /\ mine' = [mine EXCEPT ![q] = None]
    /\ UNCHANGED <<disk, current, reloader, ticker, history>>

-----------------------------------------------------------------------------

ReloadSteps ==
    \/ Reject \/ (\E r \in Runtimes : Acquire(r)) \/ (\E u \in Units : ExecuteUnit(u))
    \/ SessionsUnavailable \/ UnitPanics \/ Swap \/ FreePrevious
RequestSteps(q) ==
    \/ Arrive(q) \/ Admit(q) \/ (\E r \in Runtimes : Fork(q, r))
    \/ UseDatabase(q) \/ Respond(q)

Next ==
    \/ EditSource \/ EditEnvironment
    \/ StartReload \/ ReloadSteps \/ OpenDatabase \/ Schedule \/ ReloadEnvironment
    \/ \E q \in Requests : RequestSteps(q)
    \/ \E r \in Runtimes : Collect(r)

Spec == Init /\ [][Next]_vars

-----------------------------------------------------------------------------
(* Properties.                                                             *)

\* Every variable keeps its type; the candidate exists while it is built, and a
\* request has a runtime from its fork to its end.
TypeOK ==
    /\ where \in [Runtimes -> {"unused", "owned", "pool"}]
    /\ code \in [Runtimes -> SUBSET (Units \X Versions)]
    /\ env \in [Runtimes -> 0..MaxEnv]
    /\ db \in [Runtimes -> 0..MaxEnv]
    /\ source \in Versions /\ dotenv \in 1..MaxEnv
    /\ current \in Runtimes \cup {None}
    /\ reload \in ReloadLocations
    /\ candidate \in Runtimes \cup {None}
    /\ todo \subseteq Units
    /\ loading \in 0..MaxSource
    /\ at \in [Requests -> {"idle", "arrived", "forking", "running"}]
    /\ mine \in [Requests -> Runtimes \cup {None}]
    /\ ticker \in Runtimes \cup {None}
    /\ served \subseteq Versions
    /\ partial \in 0..MaxSource
    /\ reload \in {"load", "swap"} => candidate # None
    /\ candidate # None => reload \in {"load", "swap", "free"}
    /\ \A q \in Requests : mine[q] # None <=> at[q] \in {"forking", "running"}

\* The handlers, the reloader and the server never share a runtime, and what
\* they hold is not in the pool: no second Free, no Free of a runtime in use.
OneOwner ==
    LET Holders == {q \in Requests : at[q] = "running"}
    IN  /\ \A q \in Holders : /\ where[mine[q]] = "owned"
                              /\ mine[q] \notin {current, candidate}
                              /\ \A p \in Holders : mine[p] = mine[q] => p = q
        /\ current # None => where[current] = "owned" /\ current # candidate
        /\ candidate # None => where[candidate] = "owned"

\* A request runs one version of the program, and all of it: never a mixture
\* with what a pooled runtime held before, never a reload half done.  Only the
\* version the server started with may be incomplete, when one of its units
\* panicked.
WholeProgram ==
    \A q \in Requests : at[q] = "running" =>
        \/ \E v \in served : code[mine[q]] = Program(v)
        \/ partial # NoVersion /\ code[mine[q]] \subseteq Program(partial)

\* The program that is served changes only from one version to another that
\* has all its units, and never while a request copies it: a reload that is
\* rejected, loses its sessions or panics leaves it as it was.
Switches == (current # None /\ Served' # Served) => LockFree /\ Served' = Program(loading)
ServedProgram == [][Switches]_vars

================================================================================
